---- MODULE Spec2Model ----
(***************************************************************************)
(* A state-machine model of JasonBuilder (src/tools/json-to-vpack.cpp,     *)
(* lines 334-1349): the append buffer, the write position, the stack of    *)
(* open containers, the per-depth offset lists and the key/value flag,     *)
(* with add(), add(key, value), add(JasonPair), close(), size(), slice()   *)
(* and the number emitters translated statement by statement at the level  *)
(* of single bytes; further the builder's copy, move and clear() and the   *)
(* reserved size of its buffer.  Two more machines share the module:       *)
(* main() of the json-to-vpack tool (lines 74-238 of the same file) and    *)
(* JasonDumper (src/examples/CMakeLists.txt, lines 52-392).                *)
(*                                                                         *)
(* Positions are 0-based as in the code: byte p of the buffer is buf[p+1]. *)
(* A 64-bit number is a tuple of its 8 bytes, least significant first, so  *)
(* that no arithmetic leaves the range of the model checker's integers.    *)
(***************************************************************************)
EXTENDS Integers, Sequences, FiniteSets, TLC

\* ------------------------------------------------------------------ bytes

\* A buffer byte that was reserved but never written.
Uninit == 0 - 1

Last(s) == s[Len(s)]

Front(s) == SubSeq(s, 1, Len(s) - 1)

Min(a, b) == IF a < b THEN a ELSE b

\* k copies of x
Rep(k, x) == [i \in 1..k |-> x]

\* F(e), with e evaluated once, before F is
Bind(e, F(_)) == CHOOSE r \in {F(v) : v \in {e}} : TRUE

\* _start[p]
Byte(bf, p) == IF p >= 0 /\ p + 1 <= Len(bf) THEN bf[p + 1] ELSE Uninit

\* bytes p .. p+len-1
Bytes(bf, p, len) == [i \in 1..len |-> Byte(bf, p + i - 1)]

\* memcpy(_start + p, s, Len(s)) and its byte-wise relatives
PutSeq(bf, p, s) ==
  LET n    == Len(s)
      base == IF Len(bf) >= p THEN bf ELSE bf \o Rep(p - Len(bf), Uninit)
  IN  IF n = 0 THEN bf
      ELSE SubSeq(base, 1, p) \o s \o SubSeq(base, p + n + 1, Len(base))

\* _start[p] = x
Put(bf, p, x) == PutSeq(bf, p, <<x>>)

\* the 8 bytes of the 64-bit number n, least significant first, for
\* -2^31 <= n < 2^31; a negative n stands for the unsigned 2^64 + n
U64(n) ==
  LET hi == IF n < 0 THEN 255 ELSE 0
  IN  <<n % 256, (n \div 256) % 256, (n \div 65536) % 256, (n \div 16777216) % 256,
        hi, hi, hi, hi>>

\* the number held by the n little-endian bytes at p, for numbers below 2^31;
\* a larger one is reported as 2^31 - 1
RECURSIVE LEValue(_, _, _)
LEValue(bf, p, n) ==
  IF n = 0 THEN 0
  ELSE LET hi == LEValue(bf, p + 1, n - 1)
           lo == Byte(bf, p)
       IN  IF hi >= 8388608 THEN 2147483647 ELSE hi * 256 + lo

\* two's complement negation of an 8-byte number: 1 + (~v)
RECURSIVE NegFrom(_, _, _)
NegFrom(v, i, carry) ==
  IF i > 8 THEN <<>>
  ELSE LET x == (255 - v[i]) + carry
       IN  <<x % 256>> \o NegFrom(v, i + 1, x \div 256)

Neg64(v) == NegFrom(v, 1, 1)

\* the sign bit of an int64_t
IsNeg64(v) == v[8] >= 128

\* ------------------------------------------------------------------ items

(***************************************************************************)
(* A Jason item handed to add(): its JasonType t, the C type c that        *)
(* carries the value, and the value.  s holds the bytes of a string, n the *)
(* 8 bytes of an integer (for a double: of the integer static_cast yields),*)
(* d the 8 bytes of the value as a double, neg whether a double is < 0.0.  *)
(***************************************************************************)
Zero64 == Rep(8, 0)

Item(t, c, s, n, d, neg) == [t |-> t, c |-> c, s |-> s, n |-> n, d |-> d, neg |-> neg]

NoneItem   == Item("None",   "None",   <<>>, Zero64, Zero64, FALSE)
NullItem   == Item("Null",   "Null",   <<>>, Zero64, Zero64, FALSE)
ArrayItem  == Item("Array",  "Int64",  <<>>, Zero64, Zero64, FALSE)
ObjectItem == Item("Object", "Int64",  <<>>, Zero64, Zero64, FALSE)
StrItem(s) == Item("String", "String", s,    Zero64, Zero64, FALSE)
BinItem(s) == Item("Binary", "String", s,    Zero64, Zero64, FALSE)
BoolItem(x) == Item("Bool",  "Bool",   <<>>, U64(IF x THEN 1 ELSE 0), Zero64, FALSE)
\* Jason(int64_t k, JasonType::Int) for 0 <= k < 2^31
IntItem(k) == Item("Int", "Int64", <<>>, U64(k), Zero64, FALSE)
\* Jason(int64_t k, JasonType::SmallInt) for 0 <= k < 2^31
SmallIntItem(k) == Item("SmallInt", "Int64", <<>>, U64(k), Zero64, FALSE)
\* a String whose value is carried by an integer: Jason(5, JasonType::String)
BadStrItem == Item("String", "Int64", <<>>, U64(5), Zero64, FALSE)

\* Jason::isString
isString(sub) == sub.t = "String"

\* a JasonPair: kind, start pointer (the bytes there) and size
Pair(t, s) == [t |-> t, s |-> s]

\* JasonPair::isString
pairIsString(sub) == sub.t = "String"

\* ---------------------------------------------------------------- builder

(***************************************************************************)
(* The builder as a record: buf (the bytes written at _start), size        *)
(* (_size), pos (_pos), attrWritten, stack (_stack), index (_index), the   *)
(* two options the builder reads, and err, the message of the exception    *)
(* the running call has thrown ("" while none was thrown).                 *)
(***************************************************************************)
NoErr == ""

\* an exception thrown after a clear(): _pos = 0, _attrWritten = false and
\* an empty _stack
ThrowAndClear(b, msg) ==
  [b EXCEPT !.err = msg, !.pos = 0, !.attrWritten = FALSE, !.stack = <<>>]

Throw(b, msg) == [b EXCEPT !.err = msg]

Failed(b) == b.err # NoErr

\* reserveSpace(len): nothing when _pos + len <= _size; else the buffer
\* is given len more bytes (_buffer.prealloc(len)) and _size is its size
reserveSpace(b, len) ==
  IF b.pos + len <= b.size THEN b ELSE [b EXCEPT !.size = b.size + len]

\* _start[_pos++] = s[1]; ... with no space reserved
Write(b, s) == [b EXCEPT !.buf = PutSeq(b.buf, b.pos, s), !.pos = b.pos + Len(s)]

\* reserveSpace(len); _start[_pos++] = s[1]; ... : space is reserved for
\* exactly the bytes that are then written
Emit(b, s) == Write(reserveSpace(b, Len(s)), s)

uintLengthNoShortcut(value) ==
  IF value[8] # 0 THEN 8 ELSE IF value[7] # 0 THEN 7 ELSE IF value[6] # 0 THEN 6
  ELSE IF value[5] # 0 THEN 5 ELSE IF value[4] # 0 THEN 4 ELSE IF value[3] # 0 THEN 3
  ELSE IF value[2] # 0 THEN 2 ELSE 1

\* the number of bytes of value that are not 0, and 1 for value <= 0xff
uintLengthCountingNonzeroBytes(value) ==
  IF \A i \in 2..8 : value[i] = 0 THEN 1
  ELSE Cardinality({i \in 1..8 : value[i] # 0})

\* uintLength: 1 for value <= 0xff, else the number of shifts by 8 bits
\* that empty the value
uintLength(value) ==
  IF \A i \in 2..8 : value[i] = 0 THEN 1 ELSE uintLengthNoShortcut(value)

appendLength(b, v, n) == Emit(b, SubSeq(v, 1, n))

appendUInt(b, v, base) ==
  LET vSize == uintLength(v)
  IN  Emit(b, <<base + vSize>> \o SubSeq(v, 1, vSize))

addUTCDate(b, v) == Emit(b, <<13>> \o Neg64(v))

\* v < k for an 8-byte number v and 0 < k <= 256
Below(v, k) == (\A i \in 2..8 : v[i] = 0) /\ v[1] < k

\* static_cast<double>(v) for a uint64_t v >= 2^63, with the sign bit
\* given: exponent 63, the 52 bits below the leading one as mantissa,
\* rounded to nearest (ties to even) by the 11 bits that do not fit; a
\* mantissa that rounds up from all ones gives 2^64
doubleOfUInt64(v, sign) ==
  LET m       == [k \in 1..7 |-> IF k <= 6 THEN (v[k + 1] \div 8) + (v[k + 2] % 8) * 32
                                 ELSE (v[8] \div 8) % 16]
      top(k)  == IF k <= 6 THEN 255 ELSE 15
      rest    == v[1] + 256 * (v[2] % 8)
      roundUp == rest > 1024 \/ (rest = 1024 /\ m[1] % 2 = 1)
      carry(k) == roundUp /\ \A j \in 1..(k - 1) : m[j] = top(j)
      r       == [k \in 1..7 |-> IF carry(k) THEN (m[k] + 1) % (top(k) + 1) ELSE m[k]]
      exp     == IF carry(8) THEN 1087 ELSE 1086
  IN  <<r[1], r[2], r[3], r[4], r[5], r[6], r[7] + (exp % 16) * 16,
        sign * 128 + exp \div 16>>

\* static_cast<int64_t>(d) for the 8 bytes d of a double of magnitude
\* below 2^28: the integer part, toward zero
castInt64(d) ==
  LET biased == (d[8] % 128) * 16 + d[7] \div 16
      e      == biased - 1023
      top28  == (d[7] % 16) * 16777216 + d[6] * 65536 + d[5] * 256 + d[4]
      mag    == IF e < 0 THEN 0 ELSE (268435456 + top28) \div (2 ^ (28 - e))
  IN  U64(IF d[8] >= 128 THEN 0 - mag ELSE mag)

addDouble(b, d) == Emit(b, <<4>> \o d)

\* addPosInt(v): a SmallInt below 8, a Double above INT64_MAX, else an Int
addPosInt(b, v) ==
  IF Below(v, 8) THEN Emit(b, <<48 + v[1]>>)
  ELSE IF v[8] >= 128 THEN addDouble(b, doubleOfUInt64(v, 0))
  ELSE appendUInt(b, v, 23)

\* addNegInt(v) for the magnitude v: a SmallInt below 9, a Double above
\* 2^63 (the value of static_cast<uint64_t>(- INT64_MIN)), else an Int
addNegInt(b, v) ==
  IF Below(v, 9) THEN Emit(b, <<IF v[1] = 0 THEN 48 ELSE 64 - v[1]>>)
  ELSE IF v[8] > 128 \/ (v[8] = 128 /\ \E i \in 1..7 : v[i] # 0)
  THEN addDouble(b, doubleOfUInt64(v, 1))
  ELSE appendUInt(b, v, 31)

\* addUInt(v): a SmallInt below 8, else a UInt
addUInt(b, v) ==
  IF Below(v, 8) THEN Emit(b, <<48 + v[1]>>)
  ELSE appendUInt(b, v, 39)

\* addCompoundValue(type): push the position, give the depth an empty
\* offset list, write the tag and the zero length byte, skip 8 bytes
addCompoundValue(b, type) ==
  LET depth == Len(b.stack) + 1
      idx   == IF Len(b.index) >= depth THEN b.index ELSE Append(b.index, <<>>)
  IN  [reserveSpace(b, 10)
         EXCEPT !.stack = Append(b.stack, b.pos),
                !.index = [idx EXCEPT ![depth] = <<>>],
                !.buf   = PutSeq(b.buf, b.pos, <<type, 0>>),
                !.pos   = b.pos + 10]

\* the String case of set(Jason const&)
setString(b, item) ==
  IF item.c # "String" /\ item.c # "CharPtr"
  THEN Throw(b, "Must give a string or char const* for JasonType::String.")
  ELSE LET size == Len(item.s)
       IN  IF size <= 127
           THEN Emit(b, <<64 + size>> \o item.s)
           ELSE LET h == appendLength(Write(reserveSpace(b, 1 + 8 + size), <<12>>), U64(size), 8)
                IN  \* memcpy of the payload; _pos is left where it is
                    [h EXCEPT !.buf = PutSeq(h.buf, h.pos, item.s)]

\* the SmallInt case of set(Jason const&)
setSmallInt(b, item) ==
  IF item.c = "Double" \/ item.c = "Int64"
  THEN LET vv == item.n
       IN  IF (\A i \in 2..8 : vv[i] = 0) /\ vv[1] <= 7
           THEN Emit(b, <<vv[1] + 48>>)
           ELSE IF (\A i \in 2..8 : vv[i] = 255) /\ vv[1] >= 248
           THEN Emit(b, <<(vv[1] - 256) + 8 + 56>>)
           ELSE Throw(b, "Number out of range of JasonType::SmallInt.")
  ELSE \* case UInt64 has no break and falls into default
       Throw(b, "Must give number for JasonType::SmallInt.")

\* the Int case of set(Jason const&)
setInt(b, item) ==
  IF item.c = "Double" \/ item.c = "Int64"
  THEN IF ~ IsNeg64(item.n) THEN appendUInt(b, item.n, 23)
       ELSE appendUInt(b, Neg64(item.n), 31)
  ELSE IF item.c = "UInt64" THEN appendUInt(b, item.n, 23)
  ELSE Throw(b, "Must give number for JasonType::Int.")

\* the UInt case of set(Jason const&)
setUInt(b, item) ==
  IF item.c = "Double"
  THEN IF item.neg THEN Throw(b, "Must give non-negative number for JasonType::UInt.")
       ELSE appendUInt(b, item.n, 39)
  ELSE IF item.c = "Int64"
  THEN IF IsNeg64(item.n) THEN Throw(b, "Must give non-negative number for JasonType::UInt.")
       ELSE appendUInt(b, item.n, 39)
  ELSE IF item.c = "UInt64" THEN appendUInt(b, item.n, 39)
  ELSE Throw(b, "Must give number for JasonType::UInt.")

\* the Binary case of set(Jason const&)
setBinary(b, item) ==
  IF item.c # "String" /\ item.c # "CharPtr"
  THEN Throw(b, "Must give a string or char const* for JasonType::Binary.")
  ELSE LET v == Len(item.s)
       IN  Write(appendUInt(reserveSpace(b, 1 + uintLength(U64(v)) + v), U64(v), 191), item.s)

\* set(Jason const&): build one item at the append position
set(b, item) ==
  CASE item.t = "None"   -> Throw(b, "Cannot set a JasonType::None.")
    [] item.t = "Null"   -> Emit(b, <<1>>)
    [] item.t = "Bool"   ->
         IF item.c # "Bool" THEN Throw(b, "Must give bool for JasonType::Bool.")
         ELSE Emit(b, <<IF item.n[1] # 0 THEN 3 ELSE 2>>)
    [] item.t = "Double" ->
         IF item.c \in {"Double", "Int64", "UInt64"} THEN Emit(b, <<4>> \o item.d)
         ELSE Throw(b, "Must give number for JasonType::Double.")
    [] item.t = "External" ->
         IF item.c # "VoidPtr" THEN Throw(b, "Must give void pointer for JasonType::External.")
         ELSE Emit(b, <<9>> \o item.n)
    [] item.t = "SmallInt" -> setSmallInt(b, item)
    [] item.t = "Int"      -> setInt(b, item)
    [] item.t = "UInt"     -> setUInt(b, item)
    [] item.t = "UTCDate"  -> addUTCDate(b, item.n)
    [] item.t = "String"   -> setString(b, item)
    [] item.t = "Array"    -> addCompoundValue(b, 5)
    [] item.t = "Object"   -> addCompoundValue(b, 7)
    [] item.t = "Binary"   -> setBinary(b, item)
    [] item.t = "ArangoDB_id" -> Emit(b, <<11>>)
    [] item.t = "ID"       -> Throw(b, "Need a JasonPair to build a JasonType::ID.")
    [] item.t = "BCD"      -> Throw(b, "BCD not yet implemented.")

\* set(JasonPair const&).  For a String the code only reserves the bytes
\* and returns their address; the caller (the parser) then copies the
\* string there, which is the PutSeq of pair.s below.
setPair(b, pair) ==
  CASE pair.t = "ID" ->
         LET h == set(Emit(b, <<10>>), Item("UInt", "UInt64", <<>>, U64(Len(pair.s)), Zero64, FALSE))
         IN  IF Failed(h) THEN h
             ELSE set(h, Item("String", "CharPtr", pair.s, Zero64, Zero64, FALSE))
    [] pair.t = "Binary" ->
         LET v == Len(pair.s)
         IN  Write(appendUInt(reserveSpace(b, 1 + uintLength(U64(v)) + v), U64(v), 191), pair.s)
    [] pair.t = "String" ->
         LET size == Len(pair.s)
         IN  IF size > 127
             THEN Write(appendLength(Write(reserveSpace(b, 1 + 8 + size), <<12>>), U64(size), 8),
                        pair.s)
             ELSE Emit(b, <<64 + size>> \o pair.s)
    [] OTHER -> Throw(b, "Only JasonType::ID, JasonType::Binary and JasonType::String are valid for JasonPair argument.")

\* the offset recorded one byte further, past the entry's tag
reportAddPastTag(b, base) ==
  LET depth == Len(b.stack)
  IN  [b EXCEPT !.index[depth] = Append(@, b.pos - base + 1)]

\* reportAdd(base): record the offset of the entry about to be written
reportAdd(b, base) ==
  LET depth == Len(b.stack)
  IN  [b EXCEPT !.index[depth] = Append(@, b.pos - base)]

\* the checks and bookkeeping of add with the offset recorded before the
\* key is checked
addPrologueRecordFirst(b, subIsString) ==
  IF b.stack = <<>> THEN b
  ELSE LET tos == Last(b.stack)
           tag == Byte(b.buf, tos)
       IN  IF tag < 5 \/ tag > 8
           THEN Throw(b, "Need open array or object for add() call.")
           ELSE IF tag >= 7
           THEN LET h == IF ~ b.attrWritten THEN reportAdd(b, tos) ELSE b
                IN  IF ~ b.attrWritten /\ ~ subIsString
                    THEN Throw(h, "Need open object for this add() call.")
                    ELSE [h EXCEPT !.attrWritten = ~ b.attrWritten]
           ELSE reportAdd(b, tos)

\* the checks and bookkeeping common to add(Jason const&) and
\* add(JasonPair const&), before set() is called
addPrologue(b, subIsString) ==
  IF b.stack = <<>> THEN b
  ELSE LET tos == Last(b.stack)
           tag == Byte(b.buf, tos)
       IN  IF tag < 5 \/ tag > 8
           THEN Throw(b, "Need open array or object for add() call.")
           ELSE IF tag >= 7
           THEN IF ~ b.attrWritten /\ ~ subIsString
                THEN Throw(b, "Need open object for this add() call.")
                ELSE [(IF ~ b.attrWritten THEN reportAdd(b, tos) ELSE b)
                        EXCEPT !.attrWritten = ~ b.attrWritten]
           ELSE reportAdd(b, tos)

\* add(Jason const& sub)
add(b, sub) ==
  LET h == addPrologue(b, isString(sub))
  IN  IF Failed(h) THEN h ELSE set(h, sub)

\* add(JasonPair const& sub)
addPair(b, sub) ==
  LET h == addPrologue(b, pairIsString(sub))
  IN  IF Failed(h) THEN h ELSE setPair(h, sub)

\* add(attrName, sub) without the call of reportAdd
addKeyValueUnreported(b, attrName, sub) ==
  IF b.attrWritten THEN Throw(b, "Attribute name already written.")
  ELSE LET h == IF b.stack = <<>> THEN b
                ELSE LET tos == Last(b.stack)
                     IN  IF Byte(b.buf, tos) # 7 /\ Byte(b.buf, tos) # 8
                         THEN Throw(b, "Need open object for add() call.")
                         ELSE b
       IN  IF Failed(h) THEN h
           ELSE LET k == set(h, StrItem(attrName))
                IN  IF Failed(k) THEN k ELSE set(k, sub)

\* add(std::string const& attrName, Jason const& sub)
addKeyValue(b, attrName, sub) ==
  IF b.attrWritten THEN Throw(b, "Attribute name already written.")
  ELSE LET h == IF b.stack = <<>> THEN b
                ELSE LET tos == Last(b.stack)
                     IN  IF Byte(b.buf, tos) # 7 /\ Byte(b.buf, tos) # 8
                         THEN Throw(b, "Need open object for add() call.")
                         ELSE reportAdd(b, tos)
       IN  IF Failed(h) THEN h
           ELSE LET k == set(h, StrItem(attrName))
                IN  IF Failed(k) THEN k ELSE set(k, sub)

\* what a call returns that returns nothing, or throws
NoRet == 0 - 1

\* size() that answers whatever the stack holds
sizeWhileOpen(b) == [b |-> b, ret |-> b.pos]

\* size(): the write position, but only when no container is open; the
\* builder is left as it is (the method is const)
size(b) ==
  IF b.stack # <<>>
  THEN [b |-> Throw(b, "Jason object not sealed."), ret |-> NoRet]
  ELSE [b |-> b, ret |-> b.pos]

\* slice(): a JasonSlice at _start, position 0 of the buffer
slice(b) == [b |-> b, ret |-> 0]

\* ------------------------------------------------------------------ slice

(***************************************************************************)
(* JasonSlice, the reader close() uses to inspect the object it has just   *)
(* sealed.  A slice is a position in the buffer.                           *)
(***************************************************************************)
sliceIsString(bf, p) == (Byte(bf, p) >= 64 /\ Byte(bf, p) <= 191) \/ Byte(bf, p) = 12

sliceIsObject(bf, p) == Byte(bf, p) = 7 \/ Byte(bf, p) = 8

sliceIsCompound(bf, p) == Byte(bf, p) >= 5 /\ Byte(bf, p) <= 8

\* byteSize(): the number of bytes the tag and length fields announce
sliceByteSize(bf, p) ==
  LET tag == Byte(bf, p)
  IN  CASE tag >= 1 /\ tag <= 3    -> 1
        [] tag = 4                 -> 9
        [] tag >= 5 /\ tag <= 8    ->
             IF Byte(bf, p + 1) # 0 THEN Byte(bf, p + 1) ELSE LEValue(bf, p + 2, 8)
        [] tag = 9                 -> 9
        [] tag = 11                -> 1
        [] tag = 12                -> 9 + LEValue(bf, p + 1, 8)
        [] tag = 13                -> 9
        [] tag >= 24 /\ tag <= 31  -> 1 + (tag - 23)
        [] tag >= 32 /\ tag <= 39  -> 1 + (tag - 31)
        [] tag >= 40 /\ tag <= 47  -> 1 + (tag - 39)
        [] tag >= 48 /\ tag <= 63  -> 1
        [] tag >= 64 /\ tag <= 191 -> 1 + (tag - 64)
        [] tag >= 192 /\ tag <= 199 -> 1 + (tag - 191) + LEValue(bf, p + 1, tag - 191)
        [] OTHER                   -> 0

\* the table of a sealed compound has 2-byte entries and a 1-byte count
\* under the tags 0x05 and 0x07, 8-byte entries and count under 0x06, 0x08
sliceSmallTable(bf, p) == Byte(bf, p) = 5 \/ Byte(bf, p) = 7

\* length(): the trailing count; a compound of 2 bytes has no entries
sliceLength(bf, p) ==
  LET L == sliceByteSize(bf, p)
  IN  IF L <= 2 THEN 0
      ELSE IF sliceSmallTable(bf, p) THEN Byte(bf, p + L - 1)
      ELSE LEValue(bf, p + L - 8, 8)

\* the i-th entry of the index table (i from 0), an offset from the tag
sliceTableEntry(bf, p, i) ==
  LET L == sliceByteSize(bf, p)
      n == sliceLength(bf, p)
  IN  IF sliceSmallTable(bf, p)
      THEN LEValue(bf, p + L - 1 - 2 * n + 2 * i, 2)
      ELSE LEValue(bf, p + L - 8 - 8 * n + 8 * i, 8)

\* keyAt(i) / at(i): the position of the i-th entry by the table
sliceKeyAt(bf, p, i) == p + sliceTableEntry(bf, p, i)

\* valueAt(i): the value follows its key
sliceValueAt(bf, p, i) ==
  LET k == sliceKeyAt(bf, p, i)
  IN  k + sliceByteSize(bf, k)

\* getString(len): the position of the first byte and the length
sliceStringStart(bf, p) == IF Byte(bf, p) = 12 THEN p + 9 ELSE p + 1

sliceStringLen(bf, p) == IF Byte(bf, p) = 12 THEN LEValue(bf, p + 1, 8) ELSE Byte(bf, p) - 64

\* ------------------------------------------------------------------- sort

\* memcmp(_start + pa, _start + pb, m): -1, 0 or 1, by the first place
\* at which the two runs of m bytes differ.  The bytes past the end of
\* the buffer are all Uninit, so the places to look at end with the buffer.
memcmp(bf, pa, pb, m) ==
  Bind({i \in 0..(Min(m, Len(bf)) - 1) : Byte(bf, pa + i) # Byte(bf, pb + i)},
       LAMBDA D :
         IF D = {} THEN 0
         ELSE LET i == CHOOSE k \in D : \A j \in D : k <= j
              IN  IF Byte(bf, pa + i) < Byte(bf, pb + i) THEN 0 - 1 ELSE 1)

\* findAttrName can name the key at p: a short or a long string
attrNameKnown(bf, p) == sliceIsString(bf, p)

\* findAttrName: the position of the key's first byte
attrNameStart(bf, p) == IF Byte(bf, p) = 12 THEN p + 9 ELSE p + 1

\* findAttrName: the key's length (8 little-endian bytes for a long string)
attrNameLen(bf, p) == IF Byte(bf, p) = 12 THEN LEValue(bf, p + 1, 8) ELSE Byte(bf, p) - 64

\* SortEntryLarge: a key's first byte, its length and its offset in the
\* object at objBase
sortEntry(bf, objBase, off) ==
  [nameStart |-> attrNameStart(bf, objBase + off),
   nameSize  |-> attrNameLen(bf, objBase + off),
   offset    |-> off]

\* the comparison of sortObjectIndexShort and of doActualSortLarge: true
\* iff the key of entry a is less than the key of entry b
keyLess(bf, a, b) ==
  LET c == memcmp(bf, a.nameStart, b.nameStart, Min(a.nameSize, b.nameSize))
  IN  c < 0 \/ (c = 0 /\ a.nameSize < b.nameSize)

\* a sort that takes keys that compare equal for one key: the offset of
\* one of them stands in the place of each
sortOffsetsMergingEqualKeys(bf, objBase, offsets, tie) ==
  LET n == Len(offsets)
  IN  Bind([i \in 1..n |-> sortEntry(bf, objBase, offsets[i])],
      LAMBDA entries :
        Bind([i \in 1..n |-> Cardinality({j \in 1..n : keyLess(bf, entries[j], entries[i])})],
            LAMBDA rank :
              [r \in 1..n |->
                 entries[CHOOSE i \in 1..n :
                           /\ rank[i] <= r - 1
                           /\ \A j \in 1..n : rank[j] <= r - 1 => rank[j] <= rank[i]].offset]))

\* std::sort: the offsets in the order of keyLess.  std::sort is not
\* stable: of two keys that compare equal either may come first.
\* tie = FALSE keeps them in the order of insertion, tie = TRUE reverses
\* them.  rank[i] is the number of offsets that come before offsets[i].
sortOffsets(bf, objBase, offsets, tie) ==
  LET n == Len(offsets)
  IN  Bind([i \in 1..n |-> sortEntry(bf, objBase, offsets[i])],
      LAMBDA entries :
        LET before(j, i) ==
              \/ keyLess(bf, entries[j], entries[i])
              \/ /\ ~ keyLess(bf, entries[i], entries[j])
                 /\ IF tie THEN j > i ELSE j < i
        IN  Bind([i \in 1..n |-> Cardinality({j \in 1..n : before(j, i)})],
            LAMBDA rank :
              [r \in 1..n |-> entries[CHOOSE i \in 1..n : rank[i] = r - 1].offset]))

\* sortObjectIndexShort / sortObjectIndexLong on the offset list of the
\* innermost open container: both throw when a key is neither a short nor
\* a long string
sortObjectIndex(b, tos, tie) ==
  LET d   == Len(b.stack)
      idx == b.index[d]
  IN  IF \E i \in 1..Len(idx) : ~ attrNameKnown(b.buf, tos + idx[i])
      THEN Throw(b, "Unimplemented attribute name type.")
      ELSE [b EXCEPT !.index[d] = sortOffsets(b.buf, tos, idx, tie)]

\* ------------------------------------------------------------ uniqueness

\* the outcome of a check that reads a byte no call has written
Undefined == "undefined"

\* the outcome of a round of the loop that ends it with a plain return
Returned == "returned"

\* the len bytes at p were all written by some call
Written(bf, p, len) ==
  /\ p >= 0 /\ len >= 0 /\ len <= Len(bf) /\ p <= Len(bf) - len
  /\ \A i \in (p + 1)..(p + len) : bf[i] # Uninit

\* length(), keyAt(i) on the compound at p read written bytes only: its
\* tag and byte length, its count and its index table
sliceWritten(bf, p) ==
  /\ Written(bf, p, 2)
  /\ Byte(bf, p + 1) = 0 => Written(bf, p + 2, 8)
  /\ LET L == sliceByteSize(bf, p)
         w == IF sliceSmallTable(bf, p) THEN 2 ELSE 8
         c == IF sliceSmallTable(bf, p) THEN 1 ELSE 8
     IN  L > 2 =>
           /\ L <= Len(bf)
           /\ Written(bf, p + L - c, c)
           /\ sliceLength(bf, p) <= Len(bf)
           /\ Written(bf, p + L - c - w * sliceLength(bf, p), w * sliceLength(bf, p))

\* isString(), getString(len) on the value at p read written bytes only
stringWritten(bf, p) ==
  /\ Written(bf, p, 1)
  /\ Byte(bf, p) = 12 => Written(bf, p + 1, 8)

\* checkAttributeUniqueness(obj): "" when it returns, else the message of
\* the exception, or Undefined.  Each key is compared with the key before
\* it in the index table, and the values from the second on are searched
\* when they are objects; the loop ends at the first key that is no
\* string, at the first key equal to the one before it, or at the first
\* value whose search throws.
RECURSIVE checkAttributeUniqueness(_, _)
checkAttributeUniqueness(bf, obj) ==
  IF ~ sliceWritten(bf, obj) THEN Undefined
  ELSE
  LET n == sliceLength(bf, obj)
      same(i) ==
        LET previous == sliceKeyAt(bf, obj, i - 1)
            current  == sliceKeyAt(bf, obj, i)
            len      == sliceStringLen(bf, previous)
            len2     == sliceStringLen(bf, current)
            p        == sliceStringStart(bf, previous)
            q        == sliceStringStart(bf, current)
        IN  IF len # len2 THEN NoErr
            ELSE IF ~ (Written(bf, p, len2) /\ Written(bf, q, len2)) THEN Undefined
            ELSE IF memcmp(bf, p, q, len2) = 0 THEN "duplicate attribute name."
            ELSE NoErr
      sub(i) ==
        LET value == sliceValueAt(bf, obj, i)
        IN  IF ~ Written(bf, value, 1) THEN Undefined
            ELSE IF sliceIsObject(bf, value) /\ value > obj
            THEN checkAttributeUniqueness(bf, value) ELSE NoErr
      round(i) ==
        LET current == sliceKeyAt(bf, obj, i)
        IN  IF ~ stringWritten(bf, current) THEN Undefined
            ELSE IF ~ sliceIsString(bf, current) THEN Returned
            ELSE IF same(i) # NoErr THEN same(i)
            ELSE sub(i)
  IN  IF n = 0 THEN "OutOfBoundsIndex"
      ELSE IF ~ stringWritten(bf, sliceKeyAt(bf, obj, 0)) THEN Undefined
      ELSE IF ~ sliceIsString(bf, sliceKeyAt(bf, obj, 0)) THEN "TypeMismatch"
      ELSE Bind({i \in 1..(n - 1) : round(i) # NoErr},
                LAMBDA E :
                  IF E = {} THEN NoErr
                  ELSE LET i == CHOOSE k \in E : \A j \in E : k <= j
                       IN  IF round(i) = Returned THEN NoErr ELSE round(i))

\* what checkAttributeUniqueness may do after it has read a byte that no
\* call has written: return, or throw any of its exceptions
UndefinedOutcomes == {NoErr, "duplicate attribute name.", "TypeMismatch", "OutOfBoundsIndex"}

\* ------------------------------------------------------------------ close

\* the test for the one-byte byte length with payload + 1 + 2n in place of
\* _pos - tos - 8 + 1 + 2n
smallByteLengthCondPayloadOnly(b) ==
  LET tos == Last(b.stack)
      n   == Len(b.index[Len(b.stack)])
      x   == (b.pos - tos - 10) + 1 + 2 * n
  IN  n < 256 /\ x >= 0 /\ x < 256

\* the test of close() for the one-byte byte length
smallByteLengthCond(b) ==
  LET tos == Last(b.stack)
      n   == Len(b.index[Len(b.stack)])
      x   == b.pos - tos - 8 + 1 + 2 * n
  IN  \* unsigned: a negative x stands for 2^64 + x
      n < 256 /\ x >= 0 /\ x < 256

\* the test for the 2-byte index table without the test of the count
smallTableCondIgnoringCount(b) ==
  LET idx == b.index[Len(b.stack)]
  IN  Len(idx) = 0 \/ (Last(idx) >= 0 /\ Last(idx) < 65536)

\* the test of close() for the 2-byte index table when the byte length
\* takes 8 bytes
smallTableCond(b) ==
  LET idx == b.index[Len(b.stack)]
  IN  \* unsigned: a negative offset stands for 2^64 + offset
      Len(idx) < 256 /\ (Len(idx) = 0 \/ (Last(idx) >= 0 /\ Last(idx) < 65536))

\* the shift that leaves _pos where it was: no _pos -= 8
shiftPayloadKeepingPosition(b) ==
  LET tos == Last(b.stack)
      d   == Len(b.stack)
  IN  [b EXCEPT !.buf   = IF b.pos > tos + 10
                          THEN PutSeq(b.buf, tos + 2, Bytes(b.buf, tos + 10, b.pos - (tos + 10)))
                          ELSE b.buf,
                !.index[d] = [i \in 1..Len(@) |-> @[i] - 8]]

\* memmove of the payload over the 8 unused bytes, _pos -= 8, index[i] -= 8
shiftPayload(b) ==
  LET tos == Last(b.stack)
      d   == Len(b.stack)
  IN  [b EXCEPT !.buf   = IF b.pos > tos + 10
                          THEN PutSeq(b.buf, tos + 2, Bytes(b.buf, tos + 10, b.pos - (tos + 10)))
                          ELSE b.buf,
                !.pos   = b.pos - 8,
                !.index[d] = [i \in 1..Len(@) |-> @[i] - 8]]

\* the n index entries of w bytes each, one after the other
tableBytes(idx, w) ==
  [j \in 1..(Len(idx) * w) |-> U64(idx[((j - 1) \div w) + 1])[((j - 1) % w) + 1]]

\* close() with the 2-byte table: reserve and skip the table, force the
\* small tag, sort, write the entries and the count
closeSmallTable(b, tie) ==
  LET tos       == Last(b.stack)
      d         == Len(b.stack)
      n         == Len(b.index[d])
      tableBase == b.pos
      b1 == IF n # 0 THEN [reserveSpace(b, 2 * n + 1) EXCEPT !.pos = b.pos + 2 * n + 1] ELSE b
  IN  Bind(IF Byte(b1.buf, tos) % 2 = 0
           THEN [b1 EXCEPT !.buf = Put(b1.buf, tos, Byte(b1.buf, tos) - 1)] ELSE b1,
      LAMBDA b2 :
      Bind(IF Byte(b2.buf, tos) = 7 /\ n >= 2 /\ b2.sortAttributeNames
           THEN sortObjectIndex(b2, tos, tie) ELSE b2,
      LAMBDA b3 :
        IF Failed(b3) THEN b3
        ELSE Bind(tableBytes(b3.index[d], 2),
             LAMBDA table :
               [b3 EXCEPT !.buf = Put(PutSeq(b3.buf, tableBase, table), b3.pos - 1, n % 256)])))

\* close() with the 8-byte table: reserve and skip table and count, force
\* the large tag, sort, write the count and the entries
closeLargeTable(b, tie) ==
  LET tos       == Last(b.stack)
      d         == Len(b.stack)
      n         == Len(b.index[d])
      tableBase == b.pos
      b1 == [reserveSpace(b, 8 * n + 8) EXCEPT !.pos = b.pos + 8 * n + 8]
  IN  Bind(IF Byte(b1.buf, tos) % 2 = 1
           THEN [b1 EXCEPT !.buf = Put(b1.buf, tos, Byte(b1.buf, tos) + 1)] ELSE b1,
      LAMBDA b2 :
      Bind(IF Byte(b2.buf, tos) = 8 /\ n >= 2 /\ b2.sortAttributeNames
           THEN sortObjectIndex(b2, tos, tie) ELSE b2,
      LAMBDA b3 :
        IF Failed(b3) THEN b3
        ELSE Bind(tableBytes(b3.index[d], 8),
             LAMBDA table :
               [b3 EXCEPT !.buf = PutSeq(PutSeq(b3.buf, b3.pos - 8, U64(n)), tableBase, table)])))

\* a byte length that leaves out the tag: _pos - tos - 1
writeByteLengthWithoutTag(b, smallByteLength) ==
  LET tos == Last(b.stack)
  IN  IF smallByteLength
      THEN [b EXCEPT !.buf = Put(b.buf, tos + 1, (b.pos - tos - 1) % 256)]
      ELSE [b EXCEPT !.buf = PutSeq(b.buf, tos + 1, <<0>> \o U64(b.pos - tos - 1))]

\* the byte length: one byte at tos+1, or 0 there and 8 bytes at tos+2
writeByteLength(b, smallByteLength) ==
  LET tos == Last(b.stack)
  IN  IF smallByteLength
      THEN [b EXCEPT !.buf = Put(b.buf, tos + 1, (b.pos - tos) % 256)]
      ELSE [b EXCEPT !.buf = PutSeq(b.buf, tos + 1, <<0>> \o U64(b.pos - tos))]

\* the uniqueness check that ends close(): "" when there is none or it
\* returns, else the message of its exception, or Undefined
closeCheck(b) ==
  LET tos == Last(b.stack)
      n   == Len(b.index[Len(b.stack)])
  IN  IF b.checkAttributeUniqueness /\ n > 1 /\ Byte(b.buf, tos) >= 7
      THEN checkAttributeUniqueness(b.buf, tos)
      ELSE NoErr

\* the end of close(): the exception of the check leaves it, else the
\* container is taken from the stack
closeEnd(b, e) ==
  IF e # NoErr THEN Throw(b, e) ELSE [b EXCEPT !.stack = Front(b.stack)]

\* close(); err is Undefined when the check has read a byte that no call
\* has written
close(b, tie) ==
  IF b.stack = <<>> THEN Throw(b, "Need open array or object for close() call.")
  ELSE IF Byte(b.buf, Last(b.stack)) < 5 \/ Byte(b.buf, Last(b.stack)) > 8
  THEN Throw(b, "Need open array or object for close() call.")
  ELSE LET smallByteLength == smallByteLengthCond(b)
           smallTable      == smallByteLength \/ smallTableCond(b)
       IN  Bind(IF smallByteLength THEN shiftPayload(b) ELSE b,
           LAMBDA b1 :
           Bind(IF smallTable THEN closeSmallTable(b1, tie) ELSE closeLargeTable(b1, tie),
           LAMBDA b2 :
             IF Failed(b2) THEN b2
             ELSE Bind(writeByteLength(b2, smallByteLength),
                  LAMBDA b3 :
                  Bind(closeCheck(b3), LAMBDA e : closeEnd(b3, e)))))

\* ----------------------------------------------------------------- bounds

\* calls made on one builder
MaxOps == 5

\* entries added in one run by the bulk step
BulkCount == 256

\* ------------------------------------------------------------------ state

VARIABLES
  buf,          \* _start[0..]: the bytes of the buffer
  _size,        \* _size: the bytes reserved
  pos,          \* _pos
  attrWritten,  \* _attrWritten
  stack,        \* _stack
  index,        \* _index
  options,      \* options.sortAttributeNames, options.checkAttributeUniqueness
  calls,        \* the set of calls the caller draws from
  nops,         \* the number of calls made
  ents,         \* per open container: where each successful add wrote, and
                \* whether every call made on it succeeded
  last,         \* the last call: its name, arguments, error and the builder before it
  tool,         \* json-to-vpack: the locals of main and where it stands
  dumper,       \* a JasonDumper: its slice, buffer and strategy
  other         \* a second JasonBuilder: the other side of a copy or a move

vars ==
  <<buf, _size, pos, attrWritten, stack, index, options, calls, nops, ents, last, tool,
    dumper, other>>

\* the builder and its caller
builder == <<buf, _size, pos, attrWritten, stack, index, options, calls, nops, ents, last, other>>

\* there is no second JasonBuilder
NoOther == [kind |-> "none"]

\* no JasonDumper is constructed
NoDumper == [pc |-> "idle"]

\* json-to-vpack is not running
NoTool == [pc |-> "idle"]

\* the builder as a record
Cur ==
  [buf |-> buf, size |-> _size, pos |-> pos, attrWritten |-> attrWritten, stack |-> stack,
   index |-> index, sortAttributeNames |-> options.sortAttributeNames,
   checkAttributeUniqueness |-> options.checkAttributeUniqueness, err |-> NoErr]

\* the builder after a call that returned or threw r
Install(r) ==
  /\ buf' = r.buf
  /\ _size' = r.size
  /\ pos' = r.pos
  /\ attrWritten' = r.attrWritten
  /\ stack' = r.stack
  /\ index' = r.index
  /\ UNCHANGED <<options, tool, dumper, other>>

\* ------------------------------------------------------------------ calls

Str(k, ch) == Rep(k, ch)

KeyA  == <<97>>
KeyB  == <<98>>
KeyAB == <<97, 98>>

\* the i-th key of the bulk step: one byte, in scrambled order
BulkKey(i) == <<(i * 77) % 256>>

CallSets == {"errors", "keys", "threshold", "long", "bulk", "seed"}

AddItems(cs) ==
  CASE cs = "errors"    -> {NullItem, NoneItem, BadStrItem, StrItem(KeyA), ArrayItem, ObjectItem}
    [] cs = "keys"      -> {NullItem, StrItem(KeyB), ObjectItem}
    [] cs = "threshold" -> {StrItem(Str(119, 120)), StrItem(Str(120, 121)),
                            StrItem(Str(127, 122)), ArrayItem, ObjectItem}
    [] cs = "long"      -> {NullItem, StrItem(Str(128, 98)), StrItem(KeyA), ObjectItem}
    [] cs = "bulk"      -> {ArrayItem, ObjectItem}
    [] cs = "seed"      -> {ArrayItem, ObjectItem, SmallIntItem(1), SmallIntItem(2),
                            SmallIntItem(3)}

KeyValues(cs) ==
  CASE cs = "errors"    -> {<<KeyA, NoneItem>>}
    [] cs = "keys"      -> {<<KeyA, NullItem>>, <<KeyB, NullItem>>, <<KeyAB, ObjectItem>>}
    [] cs = "threshold" -> {}
    [] cs = "long"      -> {<<Str(128, 98), NullItem>>}
    [] cs = "bulk"      -> {}
    [] cs = "seed"      -> {<<KeyA, SmallIntItem(1)>>, <<KeyB, SmallIntItem(2)>>}

Pairs(cs) ==
  CASE cs = "errors"    -> {Pair("Binary", KeyA), Pair("Null", <<>>)}
    [] cs = "keys"      -> {}
    [] cs = "threshold" -> {}
    [] cs = "long"      -> {Pair("String", Str(128, 97)), Pair("String", Str(129, 98))}
    [] cs = "bulk"      -> {}
    [] cs = "seed"      -> {}

OptionSets(cs) ==
  CASE cs = "errors"    -> {[sortAttributeNames |-> FALSE, checkAttributeUniqueness |-> FALSE]}
    [] cs = "threshold" -> {[sortAttributeNames |-> TRUE, checkAttributeUniqueness |-> FALSE]}
    [] cs = "bulk"      -> [sortAttributeNames : {TRUE}, checkAttributeUniqueness : BOOLEAN]
    [] OTHER            -> [sortAttributeNames : BOOLEAN, checkAttributeUniqueness : BOOLEAN]

\* the call sets in which the caller also asks for size() and slice()
Queries(cs) == IF cs = "errors" THEN {"size", "slice"} ELSE {}

\* the orders std::sort may leave equal keys in; the bulk step is closed
\* in the order of insertion only
Ties(cs) == IF cs = "bulk" THEN {FALSE} ELSE BOOLEAN

\* ------------------------------------------------------------------ ghost

NoEnt == [adds |-> <<>>, clean |-> TRUE]

NoArg ==
  [key |-> <<>>, item |-> NullItem, pair |-> Pair("Null", <<>>), tie |-> FALSE, count |-> 0,
   v |-> Zero64]

\* the record of a call
Called(op, arg, r, closed) ==
  [op |-> op, arg |-> arg, err |-> r.err, pre |-> Cur, closed |-> closed, ret |-> NoRet]

\* ents after a call of add that wrote at the positions ps (none when it
\* threw) and returned or threw r
EntsAfterAdd(ps, r) ==
  LET d  == Len(stack)
      e1 == IF d = 0 THEN ents
            ELSE [ents EXCEPT ![d] = [adds  |-> @.adds \o ps,
                                      clean |-> @.clean /\ ~ Failed(r)]]
  IN  IF Len(r.stack) > d THEN Append(e1, NoEnt) ELSE e1

Init ==
  /\ buf = <<>>
  /\ _size = 0
  /\ pos = 0
  /\ other = NoOther
  /\ attrWritten = FALSE
  /\ stack = <<>>
  /\ index = <<>>
  /\ calls \in CallSets
  /\ options \in OptionSets(calls)
  /\ nops = 0
  /\ ents = <<>>
  /\ last = [op |-> "new", arg |-> NoArg, err |-> NoErr, pre |-> Cur, closed |-> NoEnt,
             ret |-> NoRet]
  /\ tool = NoTool
  /\ dumper = NoDumper

\* b.add(Jason)
Add(item) ==
  /\ nops < MaxOps
  /\ \E r \in {add(Cur, item)} :
         /\ Install(r)
         /\ ents' = EntsAfterAdd(IF Failed(r) THEN <<>> ELSE <<pos>>, r)
         /\ last' = Called("add", [NoArg EXCEPT !.item = item], r, NoEnt)
  /\ nops' = nops + 1
  /\ UNCHANGED calls

\* b.add(attrName, Jason)
AddKeyValue(key, item) ==
  /\ nops < MaxOps
  /\ \E r \in {addKeyValue(Cur, key, item)}, k \in {set(Cur, StrItem(key))} :
         /\ Install(r)
         /\ ents' = EntsAfterAdd(IF Failed(r) THEN (IF r.pos > pos THEN <<pos>> ELSE <<>>)
                                 ELSE <<pos, k.pos>>, r)
         /\ last' = Called("addKeyValue", [NoArg EXCEPT !.key = key, !.item = item], r, NoEnt)
  /\ nops' = nops + 1
  /\ UNCHANGED calls

\* b.add(JasonPair)
AddPair(pair) ==
  /\ nops < MaxOps
  /\ \E r \in {addPair(Cur, pair)} :
         /\ Install(r)
         /\ ents' = EntsAfterAdd(IF Failed(r) THEN <<>> ELSE <<pos>>, r)
         /\ last' = Called("addPair", [NoArg EXCEPT !.pair = pair], r, NoEnt)
  /\ nops' = nops + 1
  /\ UNCHANGED calls

\* one call of the bulk step: an element for an array, a pair for an object
addOne(b, i) ==
  IF Byte(b.buf, Last(b.stack)) = 5 THEN add(b, NullItem)
  ELSE addKeyValue(b, BulkKey(i), NullItem)

\* the calls i .. k of the bulk step, one after the other
RECURSIVE addMany(_, _, _)
addMany(b, i, k) ==
  IF i > k THEN b
  ELSE IF i = k THEN addOne(b, i)
  ELSE LET m == (i + k) \div 2
           l == addMany(b, i, m)
       IN  Bind(l, LAMBDA h : IF Failed(h) THEN h ELSE addMany(h, m + 1, k))

\* where the k calls of the bulk step write, from position p on: an
\* element takes 1 byte, a pair 2 bytes for the key and 1 for the value
addManyAt(isArray, p, k) ==
  IF isArray THEN [i \in 1..k |-> p + i - 1]
  ELSE [j \in 1..(2 * k) |-> p + 3 * ((j - 1) \div 2) + 2 * ((j - 1) % 2)]

\* BulkCount calls of add in a row, into a container that is still empty:
\* b.add(Jason()) for an array, b.add(key, Jason()) for an object
AddMany ==
  /\ nops < MaxOps
  /\ calls = "bulk"
  /\ stack # <<>>
  /\ index[Len(stack)] = <<>>
  /\ ~ attrWritten
  /\ \E r \in {addMany(Cur, 1, BulkCount)} :
         /\ Install(r)
         /\ ents' = EntsAfterAdd(addManyAt(Byte(buf, Last(stack)) = 5, pos, BulkCount), r)
         /\ last' = Called("addMany", [NoArg EXCEPT !.count = BulkCount], r, NoEnt)
  /\ nops' = nops + 1
  /\ UNCHANGED calls

\* b.close(); when its check has read a byte that no call has written, it
\* ends in any of UndefinedOutcomes
Close(tie) ==
  /\ nops < MaxOps
  /\ \E r0 \in {close(Cur, tie)} :
     \E r \in (IF r0.err = Undefined
               THEN {closeEnd(Throw(r0, NoErr), ub) : ub \in UndefinedOutcomes}
               ELSE {r0}) :
     LET d == Len(stack)
     IN  /\ Install(r)
         /\ ents' = IF d = 0 THEN ents
                    ELSE IF Failed(r) THEN [ents EXCEPT ![d].clean = FALSE]
                    ELSE Front(ents)
         /\ last' = Called("close", [NoArg EXCEPT !.tie = tie], r,
                           IF d = 0 THEN NoEnt ELSE ents[d])
  /\ nops' = nops + 1
  /\ UNCHANGED calls

\* b.size()
Size ==
  /\ nops < MaxOps
  /\ "size" \in Queries(calls)
  /\ \E r \in {size(Cur)} :
         /\ Install(r.b)
         /\ last' = [Called("size", NoArg, r.b, NoEnt) EXCEPT !.ret = r.ret]
  /\ nops' = nops + 1
  /\ UNCHANGED <<calls, ents>>

\* b.slice()
Slice ==
  /\ nops < MaxOps
  /\ "slice" \in Queries(calls)
  /\ \E r \in {slice(Cur)} :
         /\ Install(r.b)
         /\ last' = [Called("slice", NoArg, r.b, NoEnt) EXCEPT !.ret = r.ret]
  /\ nops' = nops + 1
  /\ UNCHANGED <<calls, ents>>

Next ==
  \/ \E item \in AddItems(calls) : Add(item)
  \/ \E kv \in KeyValues(calls) : AddKeyValue(kv[1], kv[2])
  \/ \E pair \in Pairs(calls) : AddPair(pair)
  \/ \E tie \in Ties(calls) : Close(tie)
  \/ AddMany
  \/ Size
  \/ Slice

Spec == Init /\ [][Next]_vars

\* ---------------------------------------------------------------- numbers

(***************************************************************************)
(* The emission of numbers on its own: add of the kinds SmallInt, Int,     *)
(* UInt and Binary with the value carried by each C type, and the emitters *)
(* addPosInt, addNegInt and addUInt the parser calls, on a builder with no *)
(* container open.                                                         *)
(***************************************************************************)

\* calls made on one builder
MaxNumbers == 2

\* the 8-byte number x * 256^(i-1), for a byte x
AtByte(i, x) == [j \in 1..8 |-> IF j = i THEN x ELSE 0]

\* 0, 7, 8, 255, 256, 2^16, 2^32, 2^56
Magnitudes ==
  {U64(0), U64(7), U64(8), U64(255), U64(256), U64(65536), AtByte(5, 1), AtByte(8, 1)}

\* 2^63 and 2^64 - 1: beyond INT64_MAX
BeyondInt64 == {AtByte(8, 128), Rep(8, 255)}

\* 9, 2^63 - 1, and the numbers from 2^63 on that static_cast<double>
\* rounds: 2^63 + 1 (down), 2^63 + 1024 (tie, down to even),
\* 2^63 + 3072 (tie, up to even), 2^64 - 1024 (up to 2^64)
Parsed ==
  {U64(9), <<255, 255, 255, 255, 255, 255, 255, 127>>,
   <<1, 0, 0, 0, 0, 0, 0, 128>>, <<0, 4, 0, 0, 0, 0, 0, 128>>,
   <<0, 12, 0, 0, 0, 0, 0, 128>>, <<0, 252, 255, 255, 255, 255, 255, 255>>}

\* -1, -8, -9, -256 as int64_t
Negatives == {U64(0 - 1), U64(0 - 8), U64(0 - 9), U64(0 - 256)}

\* 7.0, 8.0, -8.0, -9.0 as double
Doubles ==
  {<<0, 0, 0, 0, 0, 0, 28, 64>>, <<0, 0, 0, 0, 0, 0, 32, 64>>,
   <<0, 0, 0, 0, 0, 0, 32, 192>>, <<0, 0, 0, 0, 0, 0, 34, 192>>}

NumberKinds == {"SmallInt", "Int", "UInt"}

\* Jason(value, kind) for a value carried as int64_t, uint64_t or double
NumberItems ==
  {Item(t, "Int64", <<>>, n, Zero64, FALSE) : t \in NumberKinds, n \in Magnitudes \cup Negatives}
    \cup {Item(t, "UInt64", <<>>, n, Zero64, FALSE) :
            t \in NumberKinds, n \in Magnitudes \cup BeyondInt64}
    \cup {Item(t, "Double", <<>>, castInt64(d), d, d[8] >= 128) : t \in NumberKinds, d \in Doubles}
    \cup {BinItem(Str(k, 1)) : k \in {0, 1, 255, 256}}

InitNumbers ==
  /\ buf = <<>>
  /\ _size = 0
  /\ pos = 0
  /\ other = NoOther
  /\ attrWritten = FALSE
  /\ stack = <<>>
  /\ index = <<>>
  /\ calls = "numbers"
  /\ options = [sortAttributeNames |-> FALSE, checkAttributeUniqueness |-> FALSE]
  /\ nops = 0
  /\ ents = <<>>
  /\ last = [op |-> "new", arg |-> NoArg, err |-> NoErr, pre |-> Cur, closed |-> NoEnt,
             ret |-> NoRet]
  /\ tool = NoTool
  /\ dumper = NoDumper

\* b.add(Jason) of a number
AddNumber(item) ==
  /\ nops < MaxNumbers
  /\ \E r \in {add(Cur, item)} :
         /\ Install(r)
         /\ last' = Called("add", [NoArg EXCEPT !.item = item], r, NoEnt)
  /\ nops' = nops + 1
  /\ UNCHANGED <<calls, ents>>

\* the parser has read a non-negative integer v
AddPosInt(v) ==
  /\ nops < MaxNumbers
  /\ \E r \in {addPosInt(Cur, v)} :
         /\ Install(r)
         /\ last' = Called("addPosInt", [NoArg EXCEPT !.v = v], r, NoEnt)
  /\ nops' = nops + 1
  /\ UNCHANGED <<calls, ents>>

\* the parser has read a negative integer of magnitude v
AddNegInt(v) ==
  /\ nops < MaxNumbers
  /\ \E r \in {addNegInt(Cur, v)} :
         /\ Install(r)
         /\ last' = Called("addNegInt", [NoArg EXCEPT !.v = v], r, NoEnt)
  /\ nops' = nops + 1
  /\ UNCHANGED <<calls, ents>>

\* an unsigned integer v is emitted
AddUInt(v) ==
  /\ nops < MaxNumbers
  /\ \E r \in {addUInt(Cur, v)} :
         /\ Install(r)
         /\ last' = Called("addUInt", [NoArg EXCEPT !.v = v], r, NoEnt)
  /\ nops' = nops + 1
  /\ UNCHANGED <<calls, ents>>

NextNumbers ==
  \/ \E item \in NumberItems : AddNumber(item)
  \/ \E v \in Magnitudes \cup BeyondInt64 \cup Parsed : AddPosInt(v)
  \/ \E v \in Magnitudes \cup BeyondInt64 \cup Parsed : AddNegInt(v)
  \/ \E v \in Magnitudes \cup BeyondInt64 \cup Parsed : AddUInt(v)

SpecNumbers == InitNumbers /\ [][NextNumbers]_vars

\* ------------------------------------------------------------------- tool

(***************************************************************************)
(* json-to-vpack: main() from the command line to its exit status.  The    *)
(* steps are the loop over argv, the checks of the file names, the read of *)
(* INFILE, the registration of compressed keys, the parse and the write of *)
(* OUTFILE.  What the file system answers (a file opens or not, a stream   *)
(* stays good or not) and what INFILE holds are drawn at the step that     *)
(* asks.                                                                   *)
(***************************************************************************)

\* arguments on one command line
MaxArgs == 3

\* keys that occur twice and have 2 bytes or more in the largest input
MaxKeys == 256

EXIT_SUCCESS == 0

EXIT_FAILURE == 1

\* main has not returned
Running == 0 - 1

nullptr == "nullptr"

Flags == {"--compact", "--no-compact", "--compress", "--no-compress"}

Words == Flags \cup {"--", "-", "in.json"}

\* argv[1], ..., argv[argc - 1]
CommandLines == UNION {[1..n -> Words] : n \in 0..MaxArgs}

\* one key of the input and the number of its occurrences
Key(name, count) == [name |-> name, count |-> count]

\* the i-th key of 2 bytes
TwoByteKey(i) == <<1 + (i \div 250), 1 + (i % 250)>>

\* what INFILE holds: whether it is JSON the parser accepts, and the keys
\* of its objects in the order of their first occurrence
Document(valid, keys) == [valid |-> valid, keys |-> keys]

\* n keys of 2 bytes or more, n - 1 of 2 bytes and "abc", and the key "a",
\* each occurring twice
ManyKeys(n) ==
  [i \in 1..(n + 1) |-> IF i < n THEN Key(TwoByteKey(i), 2)
                        ELSE IF i = n THEN Key(<<97, 98, 99>>, 2)
                        ELSE Key(<<97>>, 2)]

Docs ==
  {Document(FALSE, <<>>),
   Document(TRUE, <<>>),
   Document(TRUE, <<Key(<<97>>, 2), Key(<<97, 98>>, 2), Key(<<97, 98, 99>>, 2),
                    Key(<<120, 121>>, 1), Key(<<120, 121, 122>>, 1)>>),
   Document(TRUE, ManyKeys(MaxKeys - 1)),
   Document(TRUE, ManyKeys(MaxKeys))}

\* main at its first statement, lines 75-81
StartTool(argv, linux) ==
  [pc |-> "arguments", argv |-> argv, linux |-> linux, i |-> 1,
   infileName |-> nullptr, outfileName |-> nullptr, allowFlags |-> TRUE,
   compact |-> TRUE, compress |-> FALSE, resetStream |-> TRUE, infile |-> "",
   s |-> Document(FALSE, <<>>), ifsBad |-> FALSE,
   options |-> [buildUnindexedArrays |-> FALSE, buildUnindexedObjects |-> FALSE,
                attributeTranslator |-> FALSE],
   translator |-> <<>>, sealed |-> FALSE, requiredLength |-> 2, nextId |-> 0,
   compressedOccurrences |-> 0, parsed |-> FALSE, written |-> FALSE,
   out |-> <<>>, exit |-> Running]

isOption(arg, expected) == arg = expected

\* usage(argv)
usage(t) == [t EXCEPT !.out = Append(@, "Usage")]

\* a message on std::cout or std::cerr
say(t, text) == [t EXCEPT !.out = Append(@, text)]

\* return status
leave(t, status) == [t EXCEPT !.pc = "done", !.exit = status]

\* the loop body with "--" ending nothing: allowFlags stays true
parseArgumentFlagsToTheEnd(t) ==
  LET p == t.argv[t.i]
  IN  IF t.allowFlags /\ isOption(p, "--compact") THEN [t EXCEPT !.compact = TRUE, !.i = @ + 1]
      ELSE IF t.allowFlags /\ isOption(p, "--no-compact")
      THEN [t EXCEPT !.compact = FALSE, !.i = @ + 1]
      ELSE IF t.allowFlags /\ isOption(p, "--compress")
      THEN [t EXCEPT !.compress = TRUE, !.i = @ + 1]
      ELSE IF t.allowFlags /\ isOption(p, "--no-compress")
      THEN [t EXCEPT !.compress = FALSE, !.i = @ + 1]
      ELSE IF t.allowFlags /\ isOption(p, "--") THEN [t EXCEPT !.i = @ + 1]
      ELSE IF t.infileName = nullptr THEN [t EXCEPT !.infileName = p, !.i = @ + 1]
      ELSE IF t.outfileName = nullptr THEN [t EXCEPT !.outfileName = p, !.i = @ + 1]
      ELSE leave(usage(t), EXIT_FAILURE)

\* the body of the loop over argv for argv[i]
parseArgument(t) ==
  LET p == t.argv[t.i]
  IN  IF t.allowFlags /\ isOption(p, "--compact") THEN [t EXCEPT !.compact = TRUE, !.i = @ + 1]
      ELSE IF t.allowFlags /\ isOption(p, "--no-compact")
      THEN [t EXCEPT !.compact = FALSE, !.i = @ + 1]
      ELSE IF t.allowFlags /\ isOption(p, "--compress")
      THEN [t EXCEPT !.compress = TRUE, !.i = @ + 1]
      ELSE IF t.allowFlags /\ isOption(p, "--no-compress")
      THEN [t EXCEPT !.compress = FALSE, !.i = @ + 1]
      ELSE IF t.allowFlags /\ isOption(p, "--")
      THEN [t EXCEPT !.allowFlags = FALSE, !.i = @ + 1]
      ELSE IF t.infileName = nullptr THEN [t EXCEPT !.infileName = p, !.i = @ + 1]
      ELSE IF t.outfileName = nullptr THEN [t EXCEPT !.outfileName = p, !.i = @ + 1]
      ELSE leave(usage(t), EXIT_FAILURE)

\* after the loop: INFILE is required, OUTFILE is stdout when missing on
\* Linux and required elsewhere, "-" is stdin on Linux
checkNames(t) ==
  IF t.infileName = nullptr THEN leave(usage(t), EXIT_FAILURE)
  ELSE IF ~ t.linux /\ t.outfileName = nullptr THEN leave(usage(t), EXIT_FAILURE)
  ELSE [t EXCEPT !.outfileName = IF @ = nullptr THEN "/proc/self/fd/1" ELSE @,
                 !.resetStream = t.outfileName # nullptr,
                 !.infile = IF t.linux /\ t.infileName = "-" THEN "/proc/self/fd/0"
                            ELSE t.infileName,
                 !.pc = "read"]

\* open INFILE and read it to the end of the stream: opens says whether
\* the file opened, doc what arrived in s, good whether the stream ended
\* at the end of the file and not in an error
readInfile(t, opens, doc, good) ==
  IF ~ opens THEN leave(say(t, "Cannot read infile"), EXIT_FAILURE)
  ELSE [t EXCEPT !.s = doc, !.ifsBad = ~ good, !.pc = "compress"]

\* buildCompressedKeys: the keys the visit of the parsed input finds, none
\* when the parser throws
buildCompressedKeys(s) == IF s.valid THEN s.keys ELSE <<>>

\* the orders in which the loop over keysFound may meet the keys
Orders(keys) == {keys, [i \in 1..Len(keys) |-> keys[Len(keys) + 1 - i]]}

\* translator->count()
translatorCount(translator) == Len(translator)

\* the body of the loop over keysFound with requiredLength left at 2
registerKeyOfAnyLength(t, it) ==
  IF it.count > 1 /\ Len(it.name) >= t.requiredLength
  THEN [t EXCEPT !.nextId = @ + 1,
                 !.translator = Append(@, [key |-> it.name, id |-> t.nextId + 1]),
                 !.compressedOccurrences = @ + it.count]
  ELSE t

\* the body of the loop over keysFound for the entry it
registerKey(t, it) ==
  IF it.count > 1 /\ Len(it.name) >= t.requiredLength
  THEN [t EXCEPT !.nextId = @ + 1,
                 !.translator = Append(@, [key |-> it.name, id |-> t.nextId + 1]),
                 !.requiredLength = IF translatorCount(t.translator) + 1 = 255 THEN 3 ELSE @,
                 !.compressedOccurrences = @ + it.count]
  ELSE t

\* the loop over keysFound, for its entries i .. k in the order met
RECURSIVE registerKeys(_, _, _, _)
registerKeys(t, keysFound, i, k) ==
  IF i > k THEN t
  ELSE IF i = k THEN registerKey(t, keysFound[i])
  ELSE LET m == (i + k) \div 2
       IN  Bind(registerKeys(t, keysFound, i, m),
                LAMBDA h : registerKeys(h, keysFound, m + 1, k))

\* the options of the parser and, with --compress, the translator: its
\* keys registered, sealed and attached, the statistics printed
compressKeys(t, keysFound) ==
  LET t0 == [t EXCEPT !.options.buildUnindexedArrays = t.compact,
                      !.options.buildUnindexedObjects = t.compact,
                      !.pc = "parse"]
  IN  IF ~ t.compress THEN t0
      ELSE Bind(registerKeys(t0, keysFound, 1, Len(keysFound)),
                LAMBDA t1 :
                  [t1 EXCEPT !.sealed = TRUE,
                             !.options.attributeTranslator = TRUE,
                             !.out = IF t1.compressedOccurrences > 0
                                     THEN Append(@, "occurrences of Object keys will be stored compressed")
                                     ELSE @])

\* parser.parse(s): an exception ends main
parseInfile(t) ==
  IF t.s.valid THEN [t EXCEPT !.parsed = TRUE, !.pc = "write"]
  ELSE leave(say(t, "An exception occurred while parsing infile"), EXIT_FAILURE)

\* open OUTFILE, write the bytes of the builder, close: opens says whether
\* the file opened, good whether write and close left the stream good
writeOutfile(t, opens, good) ==
  IF ~ opens THEN leave(say(t, "Cannot write outfile"), EXIT_FAILURE)
  ELSE leave(say([t EXCEPT !.written = good], "Successfully converted JSON infile"),
             EXIT_SUCCESS)

InitTool ==
  /\ buf = <<>>
  /\ _size = 0
  /\ pos = 0
  /\ other = NoOther
  /\ attrWritten = FALSE
  /\ stack = <<>>
  /\ index = <<>>
  /\ calls = "tool"
  /\ options = [sortAttributeNames |-> FALSE, checkAttributeUniqueness |-> FALSE]
  /\ nops = 0
  /\ ents = <<>>
  /\ last = [op |-> "new", arg |-> NoArg, err |-> NoErr, pre |-> Cur, closed |-> NoEnt,
             ret |-> NoRet]
  /\ tool \in {StartTool(argv, linux) : argv \in CommandLines, linux \in BOOLEAN}
  /\ dumper = NoDumper

\* one turn of the loop over argv
ParseArgument ==
  /\ tool.pc = "arguments"
  /\ tool.i <= Len(tool.argv)
  /\ tool' = parseArgument(tool)
  /\ UNCHANGED <<builder, dumper>>

\* the loop is left at its end
CheckNames ==
  /\ tool.pc = "arguments"
  /\ tool.i > Len(tool.argv)
  /\ tool' = checkNames(tool)
  /\ UNCHANGED <<builder, dumper>>

ReadInfile ==
  /\ tool.pc = "read"
  /\ \E opens \in BOOLEAN, doc \in Docs, good \in BOOLEAN :
       tool' = readInfile(tool, opens, doc, good)
  /\ UNCHANGED <<builder, dumper>>

CompressKeys ==
  /\ tool.pc = "compress"
  /\ \E keysFound \in Orders(buildCompressedKeys(tool.s)) :
       tool' = compressKeys(tool, keysFound)
  /\ UNCHANGED <<builder, dumper>>

ParseInfile ==
  /\ tool.pc = "parse"
  /\ tool' = parseInfile(tool)
  /\ UNCHANGED <<builder, dumper>>

WriteOutfile ==
  /\ tool.pc = "write"
  /\ \E opens \in BOOLEAN, good \in BOOLEAN :
       tool' = writeOutfile(tool, opens, good)
  /\ UNCHANGED <<builder, dumper>>

NextTool ==
  \/ ParseArgument
  \/ CheckNames
  \/ ReadInfile
  \/ CompressKeys
  \/ ParseInfile
  \/ WriteOutfile

SpecTool == InitTool /\ [][NextTool]_vars

\* ----------------------------------------------------------------- dumper

(***************************************************************************)
(* JasonDumper: dump() of a slice into a buffer as JSON text.  A slice is  *)
(* taken by what its accessors return: its type, the 8 bytes of its        *)
(* integer, the bytes of its string, its members (for an object the keys   *)
(* and values in turn, for an External the slice pointed to).              *)
(***************************************************************************)

\* calls of dump() on one dumper
MaxDumps == 2

\* bytes in the strings drawn from Chars
MaxChars == 2

JasonSlice(type, v, s, items) == [type |-> type, v |-> v, s |-> s, items |-> items]

\* JasonSlice::type, isType, getBool, getInt, getUInt, getString, length,
\* at, keyAt, valueAt, getExternal
type(sl) == sl.type

isType(sl, t) == type(sl) = t

getBool(sl) == sl.v # Zero64

getInt(sl) == sl.v

getUInt(sl) == sl.v

getString(sl) == sl.s

length(sl) == IF type(sl) = "Object" THEN Len(sl.items) \div 2 ELSE Len(sl.items)

at(sl, i) == sl.items[i + 1]

keyAt(sl, i) == sl.items[2 * i + 1]

valueAt(sl, i) == sl.items[2 * i + 2]

getExternal(sl) == sl.items[1]

\* fpconv_dtoa: the text of a double, carried by the slice
fpconv_dtoa(sl) == sl.s

\* _buffer->append(p, len) and _buffer->push_back(c)
append(dp, bytes) == [dp EXCEPT !.buffer = @ \o bytes]

push_back(dp, c) == [dp EXCEPT !.buffer = Append(@, c % 256)]

\* throw JasonDumperError(msg)
throwDumperError(dp, msg) == [dp EXCEPT !.err = msg]

handleUnsupportedType(dp, sl) ==
  IF dp.strategy = "STRATEGY_SUPPRESS" THEN dp
  ELSE throwDumperError(dp, "unsupported type - cannot convert to JSON")

\* quotient and remainder of the uint64_t in bytes i..1 of v, with r
\* carried in from the bytes above, by 10
RECURSIVE divTenFrom(_, _, _)
divTenFrom(v, i, r) ==
  IF i = 0 THEN [q |-> <<>>, r |-> r]
  ELSE Bind(divTenFrom(v, i - 1, (r * 256 + v[i]) % 10),
            LAMBDA rest : [q |-> Append(rest.q, (r * 256 + v[i]) \div 10), r |-> rest.r])

\* v / 10 and v % 10 for a uint64_t
DivTen(v) == divTenFrom(v, 8, 0).q

ModTen(v) == divTenFrom(v, 8, 0).r

\* v / 10^k
RECURSIVE DivPowTen(_, _)
DivPowTen(v, k) ==
  IF k = 0 THEN v ELSE Bind(DivTen(v), LAMBDA q : DivPowTen(q, k - 1))

\* the lines  if (10^j <= v) push_back('0' + (v / 10^j) % 10)  for
\* j = k, ..., 1 and a v that is not negative
RECURSIVE leadingDigits(_, _)
leadingDigits(v, k) ==
  IF k = 0 THEN <<>>
  ELSE Bind(DivPowTen(v, k),
            LAMBDA w : IF w # Zero64 THEN <<48 + ModTen(w)>> ELSE <<>>)
         \o leadingDigits(v, k - 1)

INT64_MIN == AtByte(8, 128)

dumpInteger(dp, sl) ==
  IF isType(sl, "UInt")
  THEN append(dp, leadingDigits(getUInt(sl), 19) \o <<48 + ModTen(getUInt(sl))>>)
  ELSE IF isType(sl, "Int")
  THEN LET v  == getInt(sl)
           d1 == IF IsNeg64(v) THEN push_back(dp, 45) ELSE dp
           w  == Neg64(v)
       IN  IF v = INT64_MIN
           THEN append(d1, <<57, 50, 50, 51, 51, 55, 50, 48, 51, 54, 56, 53, 52, 55, 55, 53,
                             56, 48, 56>>)
           ELSE IF IsNeg64(w)
           THEN \* v = -v left v below 0: no test 10^j <= v holds, v % 10 is <= 0
                push_back(d1, 48 - ModTen(Neg64(w)))
           ELSE push_back(append(d1, leadingDigits(w, 18)), 48 + ModTen(w))
  ELSE throwDumperError(dp, "unexpected number type")

\* EscapeTable with 0 for '/'
EscapeTableSlashCopied ==
  <<117, 117, 117, 117, 117, 117, 117, 117, 98, 116, 110, 117, 102, 114, 117, 117>>
    \o Rep(16, 117)
    \o <<0, 0, 34, 0, 0, 0, 0, 0, 0, 0, 0, 0, 0, 0, 0, 0>>
    \o Rep(32, 0)
    \o <<0, 0, 0, 0, 0, 0, 0, 0, 0, 0, 0, 0, 92, 0, 0, 0>>
    \o Rep(160, 0)

\* EscapeTable[c] is EscapeTable[c + 1] here
EscapeTable ==
  <<117, 117, 117, 117, 117, 117, 117, 117, 98, 116, 110, 117, 102, 114, 117, 117>>
    \o Rep(16, 117)
    \o <<0, 0, 34, 0, 0, 0, 0, 0, 0, 0, 0, 0, 0, 0, 0, 47>>
    \o Rep(32, 0)
    \o <<0, 0, 0, 0, 0, 0, 0, 0, 0, 0, 0, 0, 92, 0, 0, 0>>
    \o Rep(160, 0)

\* (i < 10) ? ('0' + i) : ('A' + i - 10)
hexDigit(i) == IF i < 10 THEN 48 + i ELSE 65 + i - 10

\* the loop of dumpString from offset p of src
RECURSIVE dumpStringFrom(_, _, _)
dumpStringFrom(dp, src, p) ==
  IF p >= Len(src) THEN dp
  ELSE LET c == src[p + 1]
           e == Len(src)
       IN  IF c < 128
           THEN LET esc == EscapeTable[c + 1]
                IN  IF esc # 0
                    THEN dumpStringFrom(
                           append(dp, <<92, esc>>
                                        \o (IF esc = 117
                                            THEN <<48, 48, hexDigit(c \div 16), hexDigit(c % 16)>>
                                            ELSE <<>>)),
                           src, p + 1)
                    ELSE dumpStringFrom(push_back(dp, c), src, p + 1)
           ELSE IF c \div 32 = 6
           THEN IF p + 1 >= e THEN throwDumperError(dp, "unexpected end of string")
                ELSE dumpStringFrom(append(dp, SubSeq(src, p + 1, p + 2)), src, p + 2)
           ELSE IF c \div 16 = 14
           THEN IF p + 2 >= e THEN throwDumperError(dp, "unexpected end of string")
                ELSE dumpStringFrom(append(dp, SubSeq(src, p + 1, p + 3)), src, p + 3)
           ELSE IF c \div 8 = 30
           THEN IF p + 3 >= e THEN throwDumperError(dp, "unexpected end of string")
                ELSE dumpStringFrom(append(dp, SubSeq(src, p + 1, p + 4)), src, p + 4)
           ELSE dumpStringFrom(dp, src, p + 1)

dumpString(dp, src) == dumpStringFrom(dp, src, 0)

RECURSIVE internalDump(_, _)
RECURSIVE dumpArrayFrom(_, _, _)
RECURSIVE dumpObjectFrom(_, _, _)

\* the loop of case Array from member i, and the closing bracket
dumpArrayFrom(dp, sl, i) ==
  IF i >= length(sl) THEN push_back(dp, 93)
  ELSE Bind(internalDump(IF i > 0 THEN push_back(dp, 44) ELSE dp, at(sl, i)),
            LAMBDA d : IF d.err # NoErr THEN d ELSE dumpArrayFrom(d, sl, i + 1))

\* the loop of case Object from pair i, and the closing brace
dumpObjectFrom(dp, sl, i) ==
  IF i >= length(sl) THEN push_back(dp, 125)
  ELSE Bind(internalDump(IF i > 0 THEN push_back(dp, 44) ELSE dp, keyAt(sl, i)),
            LAMBDA d :
              IF d.err # NoErr THEN d
              ELSE Bind(internalDump(push_back(d, 58), valueAt(sl, i)),
                        LAMBDA h : IF h.err # NoErr THEN h
                                   ELSE dumpObjectFrom(h, sl, i + 1)))

internalDump(dp, sl) ==
  CASE type(sl) = "None"   -> handleUnsupportedType(dp, sl)
    [] type(sl) = "Null"   -> append(dp, <<110, 117, 108, 108>>)
    [] type(sl) = "Bool"   ->
         IF getBool(sl) THEN append(dp, <<116, 114, 117, 101>>)
         ELSE append(dp, <<102, 97, 108, 115, 101>>)
    [] type(sl) = "Double" -> append(dp, fpconv_dtoa(sl))
    [] type(sl) = "Array"  -> dumpArrayFrom(push_back(dp, 91), sl, 0)
    [] type(sl) = "Object" -> dumpObjectFrom(push_back(dp, 123), sl, 0)
    [] type(sl) = "External" -> internalDump(dp, getExternal(sl))
    [] type(sl) \in {"ID", "ArangoDB_id", "UTCDate"} -> handleUnsupportedType(dp, sl)
    [] type(sl) \in {"Int", "UInt", "SmallInt"} -> dumpInteger(dp, sl)
    [] type(sl) = "String" ->
         Bind(dumpString(push_back(dp, 34), getString(sl)),
              LAMBDA d : IF d.err # NoErr THEN d ELSE push_back(d, 34))
    [] type(sl) \in {"Binary", "BCD"} -> handleUnsupportedType(dp, sl)

\* dump(); err is the exception that left this call, if any
dump(dp) == internalDump([dp EXCEPT !.err = NoErr], dp.slice)

\* the slices dumped
Scalar(t) == JasonSlice(t, Zero64, <<>>, <<>>)

IntSlice(t, v) == JasonSlice(t, v, <<>>, <<>>)

StringSlice(s) == JasonSlice("String", Zero64, s, <<>>)

ArraySlice(items) == JasonSlice("Array", Zero64, <<>>, items)

ObjectSlice(items) == JasonSlice("Object", Zero64, <<>>, items)

Unsupported == {"None", "Binary", "BCD", "UTCDate", "ID", "ArangoDB_id"}

\* 0x00, 0x08, 0x0a, 0x1f, '"', '/', '\', 'a', 0x7f
Chars == {0, 8, 10, 31, 34, 47, 92, 97, 127}

\* every string of one byte below 0x80, the strings over Chars, and
\* sequences of 2, 3 and 4 bytes, whole and cut short
DumpStrings ==
  {<<c>> : c \in 0..127}
    \cup UNION {[1..n -> Chars] : n \in 0..MaxChars}
    \cup {<<195, 169>>, <<97, 226, 130, 172, 34>>, <<240, 159, 152, 128>>,
          <<195>>, <<226, 130>>, <<240, 159, 152>>, <<128, 97>>}

\* 5, 12, 1234567890, INT64_MAX
DumpIntegers == {U64(5), U64(12), U64(1234567890), <<255, 255, 255, 255, 255, 255, 255, 127>>}

DumpSlices ==
  {Scalar(t) : t \in Unsupported \cup {"Null"}}
    \cup {IntSlice("Bool", U64(k)) : k \in {0, 1}}
    \cup {JasonSlice("Double", Zero64, <<49, 46, 53>>, <<>>)}
    \cup {IntSlice("Int", v) : v \in Magnitudes \cup Negatives \cup DumpIntegers \cup {INT64_MIN}}
    \cup {IntSlice("UInt", v) : v \in Magnitudes \cup BeyondInt64 \cup DumpIntegers}
    \cup {IntSlice("SmallInt", v) : v \in {U64(0), U64(1), U64(7), U64(0 - 1), U64(0 - 8)}}
    \cup {StringSlice(s) : s \in DumpStrings}
    \cup {JasonSlice("External", Zero64, <<>>, <<Scalar("Null")>>)}
    \cup {ArraySlice(<<>>), ObjectSlice(<<>>),
          ArraySlice(<<IntSlice("SmallInt", U64(1)), IntSlice("SmallInt", U64(2)),
                       IntSlice("SmallInt", U64(3))>>),
          ArraySlice(<<IntSlice("Int", U64(0 - 5)), IntSlice("UInt", U64(7))>>),
          ArraySlice(<<ArraySlice(<<Scalar("Null")>>), StringSlice(<<97>>)>>),
          ObjectSlice(<<StringSlice(<<97>>), Scalar("Null")>>),
          ObjectSlice(<<StringSlice(<<97>>), ArraySlice(<<>>),
                        StringSlice(<<98>>), IntSlice("Bool", U64(1))>>)}
    \cup {ArraySlice(<<Scalar(t)>>) : t \in Unsupported}
    \cup {ArraySlice(<<Scalar("Null"), Scalar(t), Scalar("Null")>>) : t \in Unsupported}
    \cup {ObjectSlice(<<StringSlice(<<97>>), Scalar(t)>>) : t \in Unsupported}
    \cup {ObjectSlice(<<StringSlice(<<97>>), Scalar("Null"), StringSlice(<<98>>), Scalar(t)>>) :
            t \in {"None", "Binary"}}

\* JasonDumper(slice, buffer, strategy) with an empty buffer
NewDumper(sl, strategy) ==
  [pc |-> "ready", slice |-> sl, strategy |-> strategy, buffer |-> <<>>,
   err |-> NoErr, dumps |-> 0, pre |-> <<>>]

InitDumper ==
  /\ buf = <<>>
  /\ _size = 0
  /\ pos = 0
  /\ other = NoOther
  /\ attrWritten = FALSE
  /\ stack = <<>>
  /\ index = <<>>
  /\ calls = "dumper"
  /\ options = [sortAttributeNames |-> FALSE, checkAttributeUniqueness |-> FALSE]
  /\ nops = 0
  /\ ents = <<>>
  /\ last = [op |-> "new", arg |-> NoArg, err |-> NoErr, pre |-> Cur, closed |-> NoEnt,
             ret |-> NoRet]
  /\ tool = NoTool
  /\ dumper \in {NewDumper(sl, strategy) :
                   sl \in DumpSlices, strategy \in {"STRATEGY_SUPPRESS", "STRATEGY_FAIL"}}

\* dumper.dump(); pre is the buffer before the call
Dump ==
  /\ dumper.pc = "ready"
  /\ dumper.dumps < MaxDumps
  /\ \E r \in {dump(dumper)} :
       dumper' = [r EXCEPT !.dumps = @ + 1, !.pre = dumper.buffer]
  /\ UNCHANGED <<builder, tool>>

NextDumper == Dump

SpecDumper == InitDumper /\ [][NextDumper]_vars

\* ------------------------------------------------------------------- life

(***************************************************************************)
(* The life of a builder: construction, copy, move and clear(), and        *)
(* addString, the emitter left to the parser (a friend class).  The        *)
(* variable other holds a second builder: the copy, the builder moved to,  *)
(* or a newly constructed builder next to a cleared one.  The caller makes *)
(* every later call on both builders.                                      *)
(***************************************************************************)

\* calls made on one builder by a caller that repeats a failed close()
MaxCalls == 8

\* JasonBuilder(): nothing written, nothing reserved, nothing open; o are
\* the options the caller then sets
JasonBuilder(o) ==
  [buf |-> <<>>, size |-> 0, pos |-> 0, attrWritten |-> FALSE, stack |-> <<>>,
   index |-> <<>>, sortAttributeNames |-> o.sortAttributeNames,
   checkAttributeUniqueness |-> o.checkAttributeUniqueness, err |-> NoErr]

\* clear() that leaves _attrWritten as it is
clearKeepingKey(b) == [b EXCEPT !.pos = 0, !.stack = <<>>]

\* clear()
clear(b) == [b EXCEPT !.pos = 0, !.attrWritten = FALSE, !.stack = <<>>]

\* the builder that is copy-constructed from b, or copy-assigned b: the
\* _size bytes of the buffer, _pos, _attrWritten, _stack and _index are
\* those of b; options is not assigned, o are the options the builder has
copy(b, o) ==
  [b EXCEPT !.buf = SubSeq(b.buf, 1, Min(Len(b.buf), b.size)),
            !.sortAttributeNames = o.sortAttributeNames,
            !.checkAttributeUniqueness = o.checkAttributeUniqueness,
            !.err = NoErr]

\* the builder b after it was moved from: its buffer reset, its _stack and
\* _index swapped for empty ones, _size and _pos 0, _attrWritten false
movedFrom(b) ==
  [b EXCEPT !.buf = <<>>, !.size = 0, !.pos = 0, !.attrWritten = FALSE,
            !.stack = <<>>, !.index = <<>>]

\* addString(strLen): the tag, and the length of a long string, then the
\* position is moved past the strLen bytes that the caller fills in; the
\* answer is where they start
addString(b, strLen) ==
  LET h == IF strLen > 127 THEN appendLength(Write(b, <<12>>), U64(strLen), 8)
           ELSE Write(b, <<64 + strLen>>)
  IN  [b |-> [h EXCEPT !.pos = h.pos + strLen], ret |-> h.pos]

\* addString(Len(s)) and the copy of s to the address it answers
addStringAndFill(b, s) ==
  LET r == addString(b, Len(s))
  IN  [r.b EXCEPT !.buf = PutSeq(r.b.buf, r.ret, s)]

LifeCallSets == {"life", "again", "many"}

LifeItems(cs) ==
  CASE cs = "life"  -> {NullItem, StrItem(KeyA), ObjectItem}
    [] cs = "again" -> {NullItem, ObjectItem}
    [] cs = "many"  -> {ObjectItem}

LifeKeyValues(cs) ==
  CASE cs = "life"  -> {<<KeyA, NullItem>>, <<KeyB, NullItem>>}
    [] cs = "again" -> {<<KeyA, NullItem>>}
    [] cs = "many"  -> {<<KeyA, NullItem>>}

LifeStrings(cs) == IF cs = "life" THEN {KeyB} ELSE {}

AllOptions == [sortAttributeNames : BOOLEAN, checkAttributeUniqueness : BOOLEAN]

LifeOptions(cs) ==
  CASE cs = "life"  -> AllOptions
    [] cs = "again" -> {[sortAttributeNames |-> FALSE, checkAttributeUniqueness |-> TRUE]}
    [] cs = "many"  -> {[sortAttributeNames |-> TRUE, checkAttributeUniqueness |-> TRUE]}

LifeTies(cs) == IF cs = "life" THEN BOOLEAN ELSE {FALSE}

\* the calls the caller makes on one builder
LifeBound == IF calls = "again" THEN MaxCalls ELSE MaxOps

\* the second builder after a call that has no defined outcome on one of
\* the two: nothing is said of it any more
Void == [kind |-> "void"]

\* the call F made on the builder, and on the second builder as well
OnBoth(F(_)) ==
  [this  |-> F(Cur),
   other |-> IF other.kind \in {"none", "void"} THEN other
             ELSE Bind(F([other.b EXCEPT !.err = NoErr]),
                       LAMBDA o : IF o.err = Undefined THEN Void
                                  ELSE [other EXCEPT !.b = o])]

InitLife ==
  /\ calls \in LifeCallSets
  /\ options \in LifeOptions(calls)
  /\ buf = <<>>
  /\ _size = 0
  /\ pos = 0
  /\ attrWritten = FALSE
  /\ stack = <<>>
  /\ index = <<>>
  /\ nops = 0
  /\ ents = <<>>
  /\ last = [op |-> "new", arg |-> NoArg, err |-> NoErr, pre |-> Cur, closed |-> NoEnt,
             ret |-> NoRet]
  /\ other = NoOther
  /\ tool = NoTool
  /\ dumper = NoDumper

\* the builder after a call that returned or threw r, the second builder
\* after the same call
InstallBoth(r, o) ==
  /\ buf' = r.buf
  /\ _size' = r.size
  /\ pos' = r.pos
  /\ attrWritten' = r.attrWritten
  /\ stack' = r.stack
  /\ index' = r.index
  /\ other' = o
  /\ nops' = nops + 1
  /\ UNCHANGED <<options, calls, tool, dumper>>

\* add(Jason) on the builder, and on the second one
LifeAdd(item) ==
  /\ nops < LifeBound
  /\ \E rb \in {OnBoth(LAMBDA b : add(b, item))} :
     LET r == rb.this
     IN  /\ InstallBoth(r, rb.other)
         /\ ents' = EntsAfterAdd(IF Failed(r) THEN <<>> ELSE <<pos>>, r)
         /\ last' = Called("add", [NoArg EXCEPT !.item = item], r, NoEnt)

\* add(attrName, Jason) on the builder, and on the second one
LifeAddKeyValue(key, item) ==
  /\ nops < LifeBound
  /\ \E rb \in {OnBoth(LAMBDA b : addKeyValue(b, key, item))}, k \in {set(Cur, StrItem(key))} :
     LET r == rb.this
     IN  /\ InstallBoth(r, rb.other)
         /\ ents' = EntsAfterAdd(IF Failed(r) THEN (IF r.pos > pos THEN <<pos>> ELSE <<>>)
                                 ELSE <<pos, k.pos>>, r)
         /\ last' = Called("addKeyValue", [NoArg EXCEPT !.key = key, !.item = item], r, NoEnt)

\* the parser's addString for the string s on the builder, and on the
\* second one
LifeAddString(s) ==
  /\ nops < LifeBound
  /\ \E rb \in {OnBoth(LAMBDA b : addStringAndFill(b, s))} :
     LET r == rb.this
     IN  /\ InstallBoth(r, rb.other)
         /\ ents' = EntsAfterAdd(<<pos>>, r)
         /\ last' = Called("addString", [NoArg EXCEPT !.key = s], r, NoEnt)

\* BulkCount calls of add(key, Jason()) in a row, into an object that is
\* still empty
LifeAddMany ==
  /\ nops < LifeBound
  /\ calls = "many"
  /\ stack # <<>>
  /\ index[Len(stack)] = <<>>
  /\ ~ attrWritten
  /\ \E r \in {addMany(Cur, 1, BulkCount)} :
         /\ InstallBoth(r, other)
         /\ ents' = EntsAfterAdd(addManyAt(Byte(buf, Last(stack)) = 5, pos, BulkCount), r)
         /\ last' = Called("addMany", [NoArg EXCEPT !.count = BulkCount], r, NoEnt)

\* close() on the builder, and on the second one
LifeClose(tie) ==
  /\ nops < LifeBound
  /\ \E rb \in {OnBoth(LAMBDA b : close(b, tie))} :
     \E r \in (IF rb.this.err = Undefined
               THEN {closeEnd(Throw(rb.this, NoErr), ub) : ub \in UndefinedOutcomes}
               ELSE {rb.this}) :
     LET d == Len(stack)
     IN  /\ InstallBoth(r, IF rb.this.err = Undefined /\ other.kind # "none" THEN Void
                           ELSE rb.other)
         /\ ents' = IF d = 0 THEN ents
                    ELSE IF Failed(r) THEN [ents EXCEPT ![d].clean = FALSE]
                    ELSE Front(ents)
         /\ last' = Called("close", [NoArg EXCEPT !.tie = tie], r,
                           IF d = 0 THEN NoEnt ELSE ents[d])

\* clear() on the builder; the second builder is from now on a newly
\* constructed one with the same options, and remembers the state in which
\* clear() was called
Clear ==
  /\ nops < LifeBound
  /\ calls = "life"
  /\ \E r \in {clear(Cur)} :
         /\ InstallBoth(r, [kind |-> "new", b |-> JasonBuilder(options), from |-> Cur])
         /\ ents' = <<>>
         /\ last' = Called("clear", NoArg, r, NoEnt)

\* JasonBuilder c(b), or c = b for a builder c with the options o: the
\* second builder is from now on the copy c
Copy(o) ==
  /\ nops < LifeBound
  /\ calls = "life"
  /\ other.kind = "none"
  /\ InstallBoth(Cur, [kind |-> "copy", b |-> copy(Cur, o)])
  /\ last' = Called("copy", NoArg, Cur, NoEnt)
  /\ UNCHANGED ents

\* JasonBuilder c(std::move(b)), or c = std::move(b) for a builder c with
\* the options o: the second builder is from now on c
Move(o) ==
  /\ nops < LifeBound
  /\ calls = "life"
  /\ other.kind = "none"
  /\ \E r \in {movedFrom(Cur)} :
         /\ InstallBoth(r, [kind |-> "moved", b |-> copy(Cur, o)])
         /\ last' = Called("move", NoArg, r, NoEnt)
  /\ UNCHANGED ents

NextLife ==
  \/ \E item \in LifeItems(calls) : LifeAdd(item)
  \/ \E kv \in LifeKeyValues(calls) : LifeAddKeyValue(kv[1], kv[2])
  \/ \E s \in LifeStrings(calls) : LifeAddString(s)
  \/ LifeAddMany
  \/ \E tie \in LifeTies(calls) : LifeClose(tie)
  \/ Clear
  \/ \E o \in AllOptions : Copy(o)
  \/ \E o \in AllOptions : Move(o)

SpecLife == InitLife /\ [][NextLife]_vars

\* ----------------------------------------------------------------- claims

\* the last call was a close() that returned
Closed == last.op = "close" /\ last.err = NoErr

\* the container that call worked on: the position of its tag, the number
\* of its recorded entries, the bytes emitted for its entries
ClosedTos == Last(last.pre.stack)

ClosedIndex == last.pre.index[Len(last.pre.stack)]

ClosedEntries == Len(ClosedIndex)

ClosedPayload == last.pre.pos - ClosedTos - 10

\* the payload of the closed container stands at offset off from its tag
\* as it stood at offset 10 before the call (said of a container with
\* recorded entries: with none, close() writes the count 0 over the last
\* byte before the write position)
PayloadAt(off) ==
  ClosedEntries > 0 =>
    Bytes(buf, ClosedTos + off, ClosedPayload)
      = Bytes(last.pre.buf, ClosedTos + 10, ClosedPayload)

\* the container was sealed in the small byte-length variant: the total
\* length in the byte at tos+1, the payload 8 bytes to the left
SealedSmall ==
  /\ Byte(buf, ClosedTos + 1) = pos - ClosedTos
  /\ pos - ClosedTos < 256
  /\ PayloadAt(2)

\* the container was sealed with the 8-byte length field: 0 at tos+1, the
\* total length at tos+2..tos+9, the payload where it was
SealedLarge ==
  /\ Byte(buf, ClosedTos + 1) = 0
  /\ LEValue(buf, ClosedTos + 2, 8) = pos - ClosedTos
  /\ pos - ClosedTos >= 256
  /\ PayloadAt(10)

C2_StoredLengthReachesWritePosition ==
  Closed => sliceByteSize(buf, ClosedTos) = pos - ClosedTos

\* C2, witness: a container with entries sealed with the 8-byte length
\* field, its stored length reaching the write position
C2_LargeContainerSealed ==
  /\ Closed
  /\ ClosedEntries >= 1
  /\ Byte(buf, ClosedTos + 1) = 0
  /\ LEValue(buf, ClosedTos + 2, 8) = pos - ClosedTos

\* C3: the byte length a value's tag and length fields encode is the number
\* of bytes the write position advanced for it (for every add of a value
\* that is complete when add returns), and once one top-level value is
\* sealed the write position, which size() returns, is the byte size of the
\* value at the start of the buffer.
C3_EncodedLengthIsAdvance ==
  /\ (/\ last.op = "add"
      /\ last.err = NoErr
      /\ last.arg.item.t \notin {"Array", "Object"})
       => sliceByteSize(buf, last.pre.pos) = pos - last.pre.pos
  /\ (last.op = "addPair" /\ last.err = NoErr)
       => sliceByteSize(buf, last.pre.pos) = pos - last.pre.pos
  /\ (last.op \in {"add", "addPair", "close"} /\ last.err = NoErr
        /\ stack = <<>> /\ last.pre.pos = 0)
       => sliceByteSize(buf, 0) = pos

\* the key the i-th entry (from 0) of the closed object's table addresses
ClosedKey(i) ==
  LET k == sliceKeyAt(buf, ClosedTos, i)
  IN  Bytes(buf, sliceStringStart(buf, k), sliceStringLen(buf, k))

\* byte-wise order: s before t or equal to it
BytesLeq(s, t) ==
  LET m == Min(Len(s), Len(t))
      D == {i \in 1..m : s[i] # t[i]}
  IN  IF D = {} THEN Len(s) <= Len(t)
      ELSE LET i == CHOOSE k \in D : \A j \in D : k <= j
           IN  s[i] < t[i]

\* an object of at least 2 keys, each with its value, was closed with
\* sorting on, and no call on it has failed
ClosedSorted ==
  /\ Closed
  /\ last.closed.clean
  /\ ~ last.pre.attrWritten
  /\ options.sortAttributeNames
  /\ sliceIsObject(buf, ClosedTos)
  /\ ClosedEntries >= 2

\* C4: with sortAttributeNames on, after close() of an object with at least
\* 2 keys the keys the index table addresses are in non-decreasing
\* byte-wise order, a key before every longer key it is a prefix of.
C4_IndexTableSorted ==
  ClosedSorted =>
    \A i \in 0..(sliceLength(buf, ClosedTos) - 2) : BytesLeq(ClosedKey(i), ClosedKey(i + 1))

\* the key at the i-th recorded offset (from 1) of the object close() was
\* called on, as it stood before the call
GivenKey(i) ==
  LET k == ClosedTos + ClosedIndex[i]
  IN  Bytes(last.pre.buf, sliceStringStart(last.pre.buf, k), sliceStringLen(last.pre.buf, k))

\* C5: with checkAttributeUniqueness on, close() of an object two of whose
\* keys are byte-identical fails with DuplicateAttribute, wherever the two
\* keys stand and whether or not the keys are sorted (stated for objects
\* on which no call has failed before).
C5_DuplicateKeysRejected ==
  (/\ last.op = "close"
   /\ last.pre.stack # <<>>
   /\ last.closed.clean
   /\ sliceIsObject(last.pre.buf, ClosedTos)
   /\ options.checkAttributeUniqueness
   /\ \E i, j \in 1..ClosedEntries : i < j /\ GivenKey(i) = GivenKey(j))
    => last.err = "duplicate attribute name."

\* every second position, from the first on: in an object, the keys
Odd(s) == [i \in 1..((Len(s) + 1) \div 2) |-> s[2 * i - 1]]

\* the positions of the entries of a container, given the positions its
\* successful adds wrote at: the elements of an array, the keys of an object
EntriesOf(isObject, adds) == IF isObject THEN Odd(adds) ELSE adds

\* C6: after every successful close() the i-th table entry of an array
\* addresses the tag of the i-th element added, each table entry of an
\* object addresses the tag of a key, and the count is the number of
\* entries, also when the payload was moved 8 bytes to the left.
C6_TableAddressesEntries ==
  Closed =>
    LET isObject == sliceIsObject(buf, ClosedTos)
        shift    == IF Byte(buf, ClosedTos + 1) # 0 THEN 8 ELSE 0
        entries  == EntriesOf(isObject, last.closed.adds)
        n        == sliceLength(buf, ClosedTos)
    IN  /\ n = Len(entries)
        /\ \A i \in 1..n :
             IF isObject
             THEN \E j \in 1..n : sliceKeyAt(buf, ClosedTos, i - 1) = entries[j] - shift
             ELSE sliceKeyAt(buf, ClosedTos, i - 1) = entries[i] - shift

\* C7: close() does not succeed on an object a key of which has no value,
\* and after a successful close() the key/value flag is clear (stated for
\* containers on which no call has failed before).
C7_ClosedObjectsHaveCompletePairs ==
  (Closed /\ last.closed.clean) =>
    /\ ~ (sliceIsObject(buf, ClosedTos) /\ last.pre.attrWritten)
    /\ ~ attrWritten

\* builder b has an open object that expects a key
ExpectsKey(b) ==
  /\ b.stack # <<>>
  /\ sliceIsObject(b.buf, Last(b.stack))
  /\ ~ b.attrWritten

\* the last call was an add of a non-String where a key was expected
NonStringAsKey ==
  /\ ExpectsKey(last.pre)
  /\ \/ last.op = "add" /\ ~ isString(last.arg.item)
     \/ last.op = "addPair" /\ ~ pairIsString(last.arg.pair)

\* C8: in an open object that expects a key, add of a value that is no
\* String fails, and appends no byte, records no offset and leaves the
\* key/value flag as it was.
C8_NonStringKeyRejectedWithoutEffect ==
  NonStringAsKey =>
    /\ last.err # NoErr
    /\ buf = last.pre.buf
    /\ pos = last.pre.pos
    /\ index = last.pre.index
    /\ attrWritten = last.pre.attrWritten
    /\ stack = last.pre.stack

\* C8, witness: a JasonPair that is no String was rejected as the second
\* key of an object
C8_PairRejectedAsSecondKey ==
  /\ NonStringAsKey
  /\ last.op = "addPair"
  /\ last.err # NoErr
  /\ Len(last.pre.index[Len(last.pre.stack)]) = 1

\* C9: after successful adds only into an open object, its offset list
\* holds one offset per key added and none for a value, each the distance
\* from the object's tag to the key's tag; in an open array, one offset per
\* element added.
C9_OneOffsetPerKeyOrElement ==
  (stack # <<>> /\ ents[Len(stack)].clean) =>
    LET tos     == Last(stack)
        entries == EntriesOf(sliceIsObject(buf, tos), ents[Len(stack)].adds)
    IN  index[Len(stack)] = [i \in 1..Len(entries) |-> entries[i] - tos]

\* the builder after add(String(key)) and then add(v) in place of the last
\* call add(key, v)
KeyThenValue == add(add(last.pre, StrItem(last.arg.key)), last.arg.item)

\* C10: in an open object that expects a key, add(key, v) leaves buffer,
\* write position, offset lists, key/value flag and stack as add(String(key))
\* followed by add(v) does, and fails when that fails.
C10_AddKeyValueIsAddKeyThenAddValue ==
  (last.op = "addKeyValue" /\ ExpectsKey(last.pre)) =>
    /\ buf = KeyThenValue.buf
    /\ pos = KeyThenValue.pos
    /\ index = KeyThenValue.index
    /\ attrWritten = KeyThenValue.attrWritten
    /\ stack = KeyThenValue.stack
    /\ last.err = KeyThenValue.err

\* C10, witness: add(key, v) with v an object-open marker opened a nested
\* object
C10_ObjectOpenedUnderKey ==
  /\ last.op = "addKeyValue"
  /\ ExpectsKey(last.pre)
  /\ last.arg.item = ObjectItem
  /\ last.err = NoErr
  /\ Len(stack) = Len(last.pre.stack) + 1

\* the last call was one of the three forms of add
Added == last.op \in {"add", "addKeyValue", "addPair"}

\* builder b is sealed: a top-level value is complete and no container open
Sealed(b) == b.stack = <<>> /\ b.pos > 0

\* the builder is as it was before the last call
Untouched ==
  /\ buf = last.pre.buf
  /\ pos = last.pre.pos
  /\ stack = last.pre.stack
  /\ index = last.pre.index
  /\ attrWritten = last.pre.attrWritten

\* C11: an add on a sealed builder (a top-level value complete, no
\* container open) fails and appends no second value to the buffer.
C11_AddAfterSealRejected ==
  (Added /\ Sealed(last.pre)) =>
    /\ last.err # NoErr
    /\ pos = last.pre.pos
    /\ buf = last.pre.buf

\* C12: close() with no container open fails and leaves the write
\* position, the buffer, the stack, the offset lists and the key/value
\* flag as they were.
C12_CloseWithoutContainerRejected ==
  (last.op = "close" /\ last.pre.stack = <<>>) =>
    /\ last.err # NoErr
    /\ Untouched

\* C12, witness: close() was rejected on a builder that holds a closed
\* container and has no container open
C12_CloseRejectedAfterClose ==
  /\ last.op = "close"
  /\ last.pre.stack = <<>>
  /\ last.pre.pos > 0
  /\ last.pre.index # <<>>
  /\ last.err # NoErr

\* C13: size() fails whenever a container is open, returns the write
\* position whenever none is, and changes nothing in either case.
C13_SizeIsPositionWhenNothingOpen ==
  last.op = "size" =>
    /\ last.pre.stack # <<>> => last.err # NoErr
    /\ last.pre.stack = <<>> => (last.err = NoErr /\ last.ret = last.pre.pos)
    /\ Untouched

\* C13, witness: size() was rejected with a container open that already
\* holds an entry
C13_SizeRejectedInOpenContainer ==
  /\ last.op = "size"
  /\ last.pre.stack # <<>>
  /\ last.pre.index[Len(last.pre.stack)] # <<>>
  /\ last.err # NoErr
  /\ last.ret = NoRet

\* C14: slice() called while a container is open is rejected and returns
\* no Slice over the unfinished bytes.
C14_SliceRejectedWhileOpen ==
  (last.op = "slice" /\ last.pre.stack # <<>>) =>
    /\ last.err # NoErr
    /\ last.ret = NoRet

\* the number of entries the successful adds put into the closed container
ClosedAdded ==
  Len(EntriesOf(sliceIsObject(buf, ClosedTos), last.closed.adds))

\* C15: after an add has failed in an open container, a close() of that
\* container that succeeds emits neither an index-table entry nor a count
\* that includes the failed add: offsets recorded and count written are
\* those of the adds that succeeded.
C15_FailedAddNotInClosedTable ==
  (Closed /\ ~ last.closed.clean) =>
    /\ ClosedEntries = ClosedAdded
    /\ sliceLength(buf, ClosedTos) = ClosedAdded

\* the 8-byte number V is below 256^n
Fits(V, n) == \A i \in (n + 1)..8 : V[i] = 0

\* the smallest n in 1..8 with V < 256^n
Width(V) == CHOOSE n \in 1..8 : Fits(V, n) /\ \A k \in 1..(n - 1) : ~ Fits(V, k)

\* the item of the last call, an add
LastItem == last.arg.item

\* the last call emitted a number with the C type of a number
NumberAdded(kind) ==
  /\ last.op = "add"
  /\ LastItem.t = kind
  /\ LastItem.c \in {"Double", "Int64", "UInt64"}

\* the last call emitted an Int, a UInt or the length of a Binary through
\* appendUInt; LengthBase is the tag base and LengthValue the value V
LengthEmitted ==
  /\ last.err = NoErr
  /\ \/ NumberAdded("Int")
     \/ NumberAdded("UInt")
     \/ last.op = "add" /\ LastItem.t = "Binary"
     \/ last.op = "addPosInt" /\ ~ Below(last.arg.v, 8) /\ last.arg.v[8] < 128
     \/ last.op = "addNegInt" /\ ~ Below(last.arg.v, 9)
          /\ (last.arg.v[8] < 128 \/ last.arg.v = AtByte(8, 128))
     \/ last.op = "addUInt" /\ ~ Below(last.arg.v, 8)

LengthNegative ==
  \/ last.op = "addNegInt"
  \/ NumberAdded("Int") /\ LastItem.c # "UInt64" /\ IsNeg64(LastItem.n)

LengthBase ==
  IF last.op = "add" /\ LastItem.t = "Binary" THEN 191
  ELSE IF last.op = "addUInt" \/ NumberAdded("UInt") THEN 39
  ELSE IF LengthNegative THEN 31 ELSE 23

LengthValue ==
  IF last.op # "add" THEN last.arg.v
  ELSE IF LastItem.t = "Binary" THEN U64(Len(LastItem.s))
  ELSE IF LengthNegative THEN Neg64(LastItem.n) ELSE LastItem.n

\* C16: uintLength(V) is the smallest n in 1..8 with V < 256^n, and an Int,
\* a UInt or a Binary length emitted for V is the tag base+n followed by
\* exactly the n low-order bytes of V, least significant first.
C16_SmallestWidthLittleEndian ==
  LengthEmitted =>
    LET V == LengthValue
        n == Width(V)
    IN  /\ uintLength(V) = n
        /\ Bytes(buf, last.pre.pos, 1 + n) = <<LengthBase + n>> \o SubSeq(V, 1, n)
        /\ pos = last.pre.pos + 1 + n
                   + (IF LastItem.t = "Binary" /\ last.op = "add" THEN Len(LastItem.s) ELSE 0)

\* C16, witness: the UInt 65536, whose second byte is 0, emitted behind
\* another value with 3 payload bytes
C16_ThreeByteUIntEmitted ==
  /\ LengthEmitted
  /\ NumberAdded("UInt")
  /\ LengthValue = U64(65536)
  /\ last.pre.pos > 0
  /\ Bytes(buf, last.pre.pos, 4) = <<42, 0, 0, 1>>

\* stands for a value that is not in -8..7
Far == 0 - 99

\* the value of the int64_t with the 8 bytes n when it is in -8..7
SmallSigned(n) ==
  IF Below(n, 8) THEN n[1]
  ELSE IF (\A i \in 2..8 : n[i] = 255) /\ n[1] >= 248 THEN n[1] - 256
  ELSE Far

\* the integer the last call emitted when it is in -8..7: by add of kind
\* Int or UInt, or by an emitter of parsed numbers
SmallEmitted ==
  IF NumberAdded("Int") \/ NumberAdded("UInt")
  THEN IF LastItem.c = "UInt64"
       THEN (IF Below(LastItem.n, 8) THEN LastItem.n[1] ELSE Far)
       ELSE SmallSigned(LastItem.n)
  ELSE IF last.op \in {"addPosInt", "addUInt"}
  THEN (IF Below(last.arg.v, 8) THEN last.arg.v[1] ELSE Far)
  ELSE IF last.op = "addNegInt"
  THEN (IF Below(last.arg.v, 9) THEN 0 - last.arg.v[1] ELSE Far)
  ELSE Far

\* the SmallInt byte of v in -8..7: 0x30+v for v >= 0, 0x38+(v+8) for v < 0
SmallIntByte(v) == IF v >= 0 THEN 48 + v ELSE 56 + (v + 8)

\* C17: every integer in -8..7 the builder emits as an integer, by add of
\* kind Int or UInt or by addPosInt, addNegInt or addUInt, is the one byte
\* of a SmallInt.
C17_SmallIntegersTakeOneByte ==
  (last.err = NoErr /\ SmallEmitted # Far) =>
    /\ pos = last.pre.pos + 1
    /\ Byte(buf, last.pre.pos) = SmallIntByte(SmallEmitted)

\* the value of the last item, of kind SmallInt, when it is in -8..7
SmallGiven ==
  IF LastItem.c = "UInt64"
  THEN (IF Below(LastItem.n, 8) THEN LastItem.n[1] ELSE Far)
  ELSE SmallSigned(LastItem.n)

\* C18: add of kind SmallInt succeeds exactly when the value is in -8..7,
\* carried as double, int64_t or uint64_t, and then emits the one byte
\* 0x30+v or 0x38+(v+8); for any other value it fails with
\* NumberOutOfRange and emits nothing.
C18_SmallIntAcceptedInRange ==
  NumberAdded("SmallInt") =>
    IF SmallGiven # Far
    THEN /\ last.err = NoErr
         /\ pos = last.pre.pos + 1
         /\ Byte(buf, last.pre.pos) = SmallIntByte(SmallGiven)
    ELSE /\ last.err = "Number out of range of JasonType::SmallInt."
         /\ pos = last.pre.pos

\* C19: a parsed non-negative integer v with 2^63 <= v < 2^64 is emitted
\* as the UInt of 8 bytes that holds v.
C19_BeyondInt64EmittedAsUInt ==
  (last.op = "addPosInt" /\ last.arg.v[8] >= 128) =>
    /\ last.err = NoErr
    /\ Bytes(buf, last.pre.pos, 9) = <<39 + 8>> \o last.arg.v
    /\ pos = last.pre.pos + 9

\* C20: after close() the tag is 0x05 or 0x07 exactly when the byte length
\* is in the byte at tos+1, and 0x06 or 0x08 whenever the byte length is in
\* the 8 bytes at tos+2.
C20_TagFollowsByteLengthForm ==
  Closed =>
    IF Byte(buf, ClosedTos + 1) # 0
    THEN Byte(buf, ClosedTos) \in {5, 7}
    ELSE Byte(buf, ClosedTos) \in {6, 8}

\* nothing was added to the container the last close() worked on: no call
\* of add was made on it since it was opened
NothingAdded == last.closed.adds = <<>> /\ last.closed.clean

\* C21: closing an array or object to which nothing was added yields
\* exactly two bytes, the small tag 0x05 or 0x07 and the byte length 0x02,
\* with no index table and no count byte; the write position ends 2 bytes
\* after the container's start.
C21_EmptyContainerTakesTwoBytes ==
  (Closed /\ NothingAdded) =>
    /\ Byte(last.pre.buf, ClosedTos) \in {5, 7}
    /\ Bytes(buf, ClosedTos, 2) = <<Byte(last.pre.buf, ClosedTos), 2>>
    /\ pos = ClosedTos + 2

\* C21, witness: an empty object closed inside another container
C21_EmptyObjectClosed ==
  /\ Closed
  /\ NothingAdded
  /\ Len(last.pre.stack) = 2
  /\ Byte(buf, ClosedTos) = 7

\* the last close() sealed the object {"a":1,"b":2}, built with sorting
\* disabled by add("a", 1) and add("b", 2) with SmallInt values
SeedObjectClosed ==
  /\ Closed
  /\ ~ options.sortAttributeNames
  /\ last.closed.clean
  /\ last.closed.adds = <<ClosedTos + 10, ClosedTos + 12, ClosedTos + 13, ClosedTos + 15>>
  /\ Byte(last.pre.buf, ClosedTos) = 7
  /\ Bytes(last.pre.buf, ClosedTos + 10, 6) = <<65, 97, 49, 65, 98, 50>>

\* the object {"a":1,"b":2} in the small variant with the table entries
\* o1 and o2: tag, byte length, the two pairs, the table, the count
SeedObjectBytes(o1, o2) ==
  /\ pos = ClosedTos + 13
  /\ Bytes(buf, ClosedTos, 13)
       = <<7, 13, 65, 97, 49, 65, 98, 50, o1, 0, o2, 0, 2>>

\* C22 as stated: the object {"a":1,"b":2}, built with sorting disabled
\* and sealed small, is tag 0x07, byte length, "a" (0x41,'a'), 0x31, "b"
\* (0x41,'b'), 0x32, the table with the offsets 0x03 and 0x06, the count 2.
C22_SeedObjectOffsetsThreeAndSix == SeedObjectClosed => SeedObjectBytes(3, 6)

\* C22, amended: the same object is sealed with the offsets 0x02 and 0x05,
\* the distances from the object's tag to the tags of its keys.
C22_SeedObjectOffsetsTwoAndFive == SeedObjectClosed => SeedObjectBytes(2, 5)

\* C22, witness: the object {"a":1,"b":2} sealed inside an array
C22_SeedObjectSealed ==
  /\ SeedObjectClosed
  /\ ClosedTos > 0
  /\ Bytes(buf, ClosedTos + 8, 5) = <<2, 0, 5, 0, 2>>

\* the String of more than 127 bytes the last call handed to add(Jason) or
\* add(JasonPair); <<>> when it handed none
LongStringGiven ==
  IF last.op = "add" /\ last.arg.item.t = "String" /\ last.arg.item.c = "String"
       /\ Len(last.arg.item.s) > 127
  THEN last.arg.item.s
  ELSE IF last.op = "addPair" /\ last.arg.pair.t = "String" /\ Len(last.arg.pair.s) > 127
  THEN last.arg.pair.s
  ELSE <<>>

\* C30: after add of a String longer than 127 bytes the write position has
\* advanced by 9 + length, past the tag 0x0c, the 8-byte little-endian
\* length and the payload, on the add(Jason) path as on the add(JasonPair)
\* path.
C30_LongStringAdvancesPastPayload ==
  (last.err = NoErr /\ LongStringGiven # <<>>) =>
    /\ Bytes(buf, last.pre.pos, 9) = <<12>> \o U64(Len(LongStringGiven))
    /\ pos = last.pre.pos + 9 + Len(LongStringGiven)

\* C23: json-to-vpack exits with status 0 only when the input was read,
\* parsed and its bytes were written to the output; every failure (usage,
\* unreadable input, parse error, output that cannot be opened, failed
\* write) yields a non-zero status.
C23_ExitZeroOnlyOnFullSuccess ==
  tool.pc = "done" =>
    (tool.exit = EXIT_SUCCESS <=> (~ tool.ifsBad /\ tool.parsed /\ tool.written))

\* the first "--" of the command line, or one past its end
EndOfFlags(argv) ==
  CHOOSE j \in 1..(Len(argv) + 1) :
    /\ j = Len(argv) + 1 \/ argv[j] = "--"
    /\ \A m \in 1..(j - 1) : argv[m] # "--"

\* argv[j] is to be taken as a file name: it stands after the first "--",
\* or before it and is none of the four flags
IsFileName(argv, j) ==
  \/ j > EndOfFlags(argv)
  \/ j < EndOfFlags(argv) /\ argv[j] \notin Flags

\* the file names among argv[1..k], in their order
RECURSIVE FileNames(_, _)
FileNames(argv, k) ==
  IF k = 0 THEN <<>>
  ELSE IF IsFileName(argv, k) THEN Append(FileNames(argv, k - 1), argv[k])
  ELSE FileNames(argv, k - 1)

\* main returned from inside the loop over argv
LeftInLoop == tool.pc = "done" /\ tool.i <= Len(tool.argv)

\* the arguments the loop has looked at
Looked == IF tool.pc = "arguments" THEN tool.i - 1 ELSE tool.i

\* C24: arguments are flags only up to the first "--": every argument
\* after it is taken as INFILE or OUTFILE, before it no flag and no "--" is
\* taken as a file name, and a third file name ends the program with the
\* usage text and a failure status.
C24_FlagsEndAtFirstDoubleDash ==
  (tool.pc = "arguments" \/ LeftInLoop) =>
    IF Len(FileNames(tool.argv, Looked)) >= 3
    THEN /\ LeftInLoop
         /\ tool.exit = EXIT_FAILURE
         /\ tool.out = <<"Usage">>
    ELSE /\ tool.pc = "arguments"
         /\ tool.infileName = IF Len(FileNames(tool.argv, Looked)) >= 1
                              THEN FileNames(tool.argv, Looked)[1] ELSE nullptr
         /\ tool.outfileName = IF Len(FileNames(tool.argv, Looked)) >= 2
                               THEN FileNames(tool.argv, Looked)[2] ELSE nullptr

\* C24, witness: after "--" the arguments "--compress" and "--" became
\* INFILE and OUTFILE, and compression stayed off
C24_FlagSpellingsTakenAsFiles ==
  /\ tool.pc = "arguments"
  /\ tool.argv = <<"--", "--compress", "--">>
  /\ tool.i > Len(tool.argv)
  /\ tool.infileName = "--compress"
  /\ tool.outfileName = "--"
  /\ ~ tool.compress

\* the key occurs at least 2 times and is at least 2 bytes long
Qualifies(it) == it.count >= 2 /\ Len(it.name) >= 2

\* the keys of the input
InputKeys == {tool.s.keys[i] : i \in DOMAIN tool.s.keys}

\* the keys in the translator
Registered == {tool.translator[i].key : i \in DOMAIN tool.translator}

\* --compress was given, the input is JSON and the translator is sealed
Compressed == tool.pc \in {"parse", "write", "done"} /\ tool.sealed /\ tool.s.valid

\* C25 as stated: with --compress the keys registered are exactly the keys
\* that occur at least 2 times and are at least 2 bytes long, with the IDs
\* 1..N, whatever their number.
C25_EveryQualifyingKeyRegistered ==
  Compressed =>
    /\ Registered = {it.name : it \in {x \in InputKeys : Qualifies(x)}}
    /\ \A i \in DOMAIN tool.translator : tool.translator[i].id = i

\* C25, amended: the registered keys are distinct, carry the IDs 1..N in
\* the order of registration, occur at least 2 times and are at least 2
\* bytes long, those after the 255th at least 3 bytes; every key of 3 bytes
\* or more that occurs twice is registered, and a key of 2 bytes that
\* occurs twice is left out only when 255 keys are registered.
C25_TwoByteKeysRegisteredUpTo255 ==
  Compressed =>
    /\ \A i \in DOMAIN tool.translator : tool.translator[i].id = i
    /\ Cardinality(Registered) = Len(tool.translator)
    /\ Registered \subseteq {it.name : it \in {x \in InputKeys : Qualifies(x)}}
    /\ \A i \in DOMAIN tool.translator : i > 255 => Len(tool.translator[i].key) >= 3
    /\ \A name \in {it.name : it \in {x \in InputKeys : Qualifies(x)}} \ Registered :
         Len(name) = 2 /\ Len(tool.translator) >= 255

\* C25, witness: 255 keys are registered and a key of 2 bytes that occurs
\* twice is left out
C25_TwoByteKeyLeftOut ==
  /\ Compressed
  /\ Len(tool.translator) >= 255
  /\ \E it \in InputKeys : Qualifies(it) /\ it.name \notin Registered

\* dump() was called on the dumper and has come back
Dumped == dumper.pc = "ready" /\ dumper.dumps > 0

\* what the last dump() wrote
Output == SubSeq(dumper.buffer, Len(dumper.pre) + 1, Len(dumper.buffer))

\* the decimal digits of a uint64_t, without leading zeros
RECURSIVE Digits(_)
Digits(v) ==
  Bind(DivTen(v), LAMBDA q : IF q = Zero64 THEN <<48 + ModTen(v)>>
                             ELSE Digits(q) \o <<48 + ModTen(v)>>)

\* the decimal representation of an int64_t
Decimal(v) == IF IsNeg64(v) THEN <<45>> \o Digits(Neg64(v)) ELSE Digits(v)

\* C26: dumping an Int value v writes the decimal representation of v for
\* every signed 64-bit v, INT64_MIN included: '-' exactly when v < 0, then
\* the digits of |v| without leading zeros.
C26_IntDumpedAsDecimal ==
  (Dumped /\ dumper.slice.type = "Int") =>
    /\ dumper.err = NoErr
    /\ Output = Decimal(dumper.slice.v)

\* the decimal representations of the members i.. of an array, with commas
RECURSIVE DecimalList(_, _)
DecimalList(items, i) ==
  IF i > Len(items) THEN <<>>
  ELSE (IF i > 1 THEN <<44>> ELSE <<>>) \o Decimal(items[i].v) \o DecimalList(items, i + 1)

\* the slice is a SmallInt or an array of SmallInt members
OfSmallInts(sl) ==
  \/ sl.type = "SmallInt"
  \/ /\ sl.type = "Array"
     /\ sl.items # <<>>
     /\ \A i \in DOMAIN sl.items : sl.items[i].type = "SmallInt"

\* C27: dumping a SmallInt, or an array of SmallInt members such as the
\* one built from [1,2,3], writes each SmallInt as its decimal
\* representation and raises no error.
C27_SmallIntsDumpedAsDecimal ==
  (Dumped /\ OfSmallInts(dumper.slice)) =>
    /\ dumper.err = NoErr
    /\ Output = IF dumper.slice.type = "SmallInt" THEN Decimal(dumper.slice.v)
                ELSE <<91>> \o DecimalList(dumper.slice.items, 1) \o <<93>>

\* the string is UTF-8 as far as dumpString looks: a byte from 0x80 on
\* begins a sequence of 2, 3 or 4 bytes that is whole
RECURSIVE WellFormed(_, _)
WellFormed(s, p) ==
  IF p > Len(s) THEN TRUE
  ELSE IF s[p] < 128 THEN WellFormed(s, p + 1)
  ELSE IF s[p] \in 192..223 THEN p + 1 <= Len(s) /\ WellFormed(s, p + 2)
  ELSE IF s[p] \in 224..239 THEN p + 2 <= Len(s) /\ WellFormed(s, p + 3)
  ELSE IF s[p] \in 240..247 THEN p + 3 <= Len(s) /\ WellFormed(s, p + 4)
  ELSE FALSE

\* the bytes that are not part of a sequence begun by a byte from 0x80 on
RECURSIVE Plain(_, _)
Plain(s, p) ==
  IF p > Len(s) THEN {}
  ELSE IF s[p] < 128 THEN {p} \cup Plain(s, p + 1)
  ELSE IF s[p] \in 192..223 THEN Plain(s, p + 2)
  ELSE IF s[p] \in 224..239 THEN Plain(s, p + 3)
  ELSE Plain(s, p + 4)

HexDigits == <<48, 49, 50, 51, 52, 53, 54, 55, 56, 57, 65, 66, 67, 68, 69, 70>>

\* byte c of a string as the claim writes it; slash is where '/' goes:
\* TRUE with a backslash before it, FALSE unchanged
Escaped(c, slash) ==
  IF c \in {8, 9, 10, 12, 13}
  THEN <<92, CASE c = 8 -> 98 [] c = 9 -> 116 [] c = 10 -> 110 [] c = 12 -> 102 [] c = 13 -> 114>>
  ELSE IF c < 32 THEN <<92, 117, 48, 48, HexDigits[(c \div 16) + 1], HexDigits[(c % 16) + 1]>>
  ELSE IF c \in {34, 92} THEN <<92, c>>
  ELSE IF c = 47 /\ slash THEN <<92, 47>>
  ELSE <<c>>

\* the string s between quotes with its plain bytes escaped
RECURSIVE EscapedFrom(_, _, _)
EscapedFrom(s, p, slash) ==
  IF p > Len(s) THEN <<>>
  ELSE (IF p \in Plain(s, 1) THEN Escaped(s[p], slash) ELSE <<s[p]>>)
         \o EscapedFrom(s, p + 1, slash)

\* a String of UTF-8 was dumped
StringDumped == Dumped /\ dumper.slice.type = "String" /\ WellFormed(dumper.slice.s, 1)

\* C28 as stated: in dumped strings every byte 0x00..0x1F is written as a
\* named escape or as \u00XX, '"' and '\' with a backslash before them,
\* and every other byte below 0x80 unchanged.
C28_OtherBytesCopiedUnchanged ==
  StringDumped =>
    /\ dumper.err = NoErr
    /\ Output = <<34>> \o EscapedFrom(dumper.slice.s, 1, FALSE) \o <<34>>

\* C28, amended: as stated, but '/' is written as \/ too.
C28_SlashEscapedToo ==
  StringDumped =>
    /\ dumper.err = NoErr
    /\ Output = <<34>> \o EscapedFrom(dumper.slice.s, 1, TRUE) \o <<34>>

\* C28, witness: the string of 0x1f and '/' dumped as "\u001F\/"
C28_ControlAndSlashDumped ==
  /\ StringDumped
  /\ dumper.slice.s = <<31, 47>>
  /\ Output = <<34, 92, 117, 48, 48, 49, 70, 92, 47, 34>>

\* "null" for each member from i on, after its key for an object
RECURSIVE NullList(_, _)
NullList(sl, i) ==
  IF i >= length(sl) THEN <<>>
  ELSE (IF i > 0 THEN <<44>> ELSE <<>>)
         \o (IF sl.type = "Object" THEN <<34>> \o keyAt(sl, i).s \o <<34, 58>> ELSE <<>>)
         \o <<110, 117, 108, 108>>
         \o NullList(sl, i + 1)

\* the members of the array, or the values of the object, are Null or
\* without JSON meaning, one at least of the latter
HoldsUnsupported(sl) ==
  /\ sl.type \in {"Array", "Object"}
  /\ \A i \in 0..(length(sl) - 1) :
       IF sl.type = "Array" THEN at(sl, i).type \in Unsupported \cup {"Null"}
       ELSE valueAt(sl, i).type \in Unsupported \cup {"Null"}
  /\ \E i \in 0..(length(sl) - 1) :
       IF sl.type = "Array" THEN at(sl, i).type \in Unsupported
       ELSE valueAt(sl, i).type \in Unsupported

\* C29: under Suppress a value without JSON meaning that is an array
\* element or an object value is dumped as null, one JSON value per element
\* and per key; under Fail it raises the error of unsupported types.
C29_SuppressedMemberDumpedAsNull ==
  (Dumped /\ HoldsUnsupported(dumper.slice)) =>
    IF dumper.strategy = "STRATEGY_SUPPRESS"
    THEN /\ dumper.err = NoErr
         /\ Output = (IF dumper.slice.type = "Array" THEN <<91>> ELSE <<123>>)
                       \o NullList(dumper.slice, 0)
                       \o (IF dumper.slice.type = "Array" THEN <<93>> ELSE <<125>>)
    ELSE dumper.err = "unsupported type - cannot convert to JSON"

\* the offset list of the container the last close() worked on, as the call
\* left it: shifted where the payload was, and in the order of the table
ClosedTable == index[Len(last.pre.stack)]

Refuses(b) ==
  /\ \A item \in AddItems(calls) : Failed(add(b, item))
  /\ \A tie \in BOOLEAN : close(b, tie).err \notin {NoErr, Undefined}

\* C33: a close() that fails with DuplicateAttribute leaves the builder as
\* it was before the call (the container still open, and the buffer, the
\* write position and the recorded offsets unchanged, so that a second
\* close() finds what the first one found), or the builder refuses further
\* operations.
C33_FailedCloseLeavesBuilderAsItWas ==
  (last.op = "close" /\ last.err = "duplicate attribute name.") =>
    \/ /\ stack = last.pre.stack
       /\ buf = last.pre.buf
       /\ pos = last.pre.pos
       /\ index = last.pre.index
    \/ Refuses(Cur)

\* the number of places of the sequence s that hold x
Count(s, x) == Cardinality({i \in 1..Len(s) : s[i] = x})

\* the last call was a close() that returned and sorted the offsets: of an
\* object of two or more entries, with sortAttributeNames on
ClosedAndSorted ==
  /\ Closed
  /\ sliceIsObject(buf, ClosedTos)
  /\ ClosedEntries >= 2
  /\ options.sortAttributeNames

\* by how much that close() moved the payload to the left
ClosedShift == IF Byte(buf, ClosedTos + 1) # 0 THEN 8 ELSE 0

\* the width of an entry of the table that close() wrote
ClosedWidth == IF sliceSmallTable(buf, ClosedTos) THEN 2 ELSE 8

\* the bytes of the i-th entry (from 1) of the table that close() wrote
TableEntry(i) ==
  Bytes(buf, last.pre.pos - ClosedShift + ClosedWidth * (i - 1), ClosedWidth)

\* the bytes that stand in the table for the i-th recorded offset
RecordedEntry(i) == SubSeq(U64(ClosedIndex[i] - ClosedShift), 1, ClosedWidth)

\* C35: sorting during close() only permutes the index table: the table
\* written for an object holds each recorded key offset as often as it was
\* recorded (none lost, none duplicated), and the bytes of the payload
\* stay in the order in which they were added.
C35_SortPermutesTheTable ==
  ClosedAndSorted =>
    LET table == [i \in 1..ClosedEntries |-> TableEntry(i)]
        given == [i \in 1..ClosedEntries |-> RecordedEntry(i)]
    IN  /\ \A i \in 1..ClosedEntries : Count(table, given[i]) = Count(given, given[i])
        /\ PayloadAt(10 - ClosedShift)

\* C35, witness: an object sealed with its table in another order than
\* the order in which its keys were added
C35_TableReordered ==
  /\ ClosedAndSorted
  /\ \E i \in 1..ClosedEntries : TableEntry(i) # RecordedEntry(i)

\* the key of the i-th table entry (from 0) of the sealed object at p
SealedKey(bf, p, i) ==
  LET k == sliceKeyAt(bf, p, i)
  IN  Bytes(bf, sliceStringStart(bf, k), sliceStringLen(bf, k))

\* the keys of the sealed object at p are pairwise different, and so are
\* the keys of every object among its values, at every nesting level
RECURSIVE KeysDiffer(_, _)
KeysDiffer(bf, p) ==
  LET n == sliceLength(bf, p)
  IN  /\ \A i, j \in 0..(n - 1) : i < j => SealedKey(bf, p, i) # SealedKey(bf, p, j)
      /\ \A i \in 0..(n - 1) :
           sliceIsObject(bf, sliceValueAt(bf, p, i)) => KeysDiffer(bf, sliceValueAt(bf, p, i))

\* C39: with checkAttributeUniqueness on, close() raises no error for an
\* object whose keys are pairwise different at every nesting level, also
\* when some of its values are empty or one-key objects, and none for an
\* array (stated for containers on which no call has failed before and
\* in which no key waits for its value).
C39_DistinctKeysPassTheCheck ==
  (/\ last.op = "close"
   /\ last.pre.stack # <<>>
   /\ last.closed.clean
   /\ ~ last.pre.attrWritten
   /\ options.checkAttributeUniqueness
   /\ sliceIsObject(buf, ClosedTos) => KeysDiffer(buf, ClosedTos))
    => last.err = NoErr

\* C31: in every reachable builder state the write position is at most the
\* reserved size of the buffer, _pos <= _size, whichever emitter wrote
\* last: add, close() or the parser's addString.
C31_PositionWithinReservedSpace == pos <= _size

\* C34: close() changes no byte of the buffer before the start of the
\* container it closes, and changes neither the stack positions nor the
\* recorded offsets of the enclosing containers (the frame of close()).
C34_CloseLeavesEnclosingAlone ==
  (last.op = "close" /\ last.pre.stack # <<>>) =>
    LET d == Len(last.pre.stack)
    IN  /\ Bytes(buf, 0, ClosedTos) = Bytes(last.pre.buf, 0, ClosedTos)
        /\ SubSeq(stack, 1, d - 1) = SubSeq(last.pre.stack, 1, d - 1)
        /\ SubSeq(index, 1, d - 1) = SubSeq(last.pre.index, 1, d - 1)

\* The builder and the second builder of kind k, which received the same
\* calls, agree: same error of the last call, same size, same open
\* containers, same bytes wherever the second builder's bytes are defined.
BehavesAlike(k) ==
  other.kind = k =>
    /\ other.b.err = last.err
    /\ other.b.pos = pos
    /\ other.b.stack = stack
    /\ \A p \in 0..(pos - 1) :
         Byte(other.b.buf, p) # Uninit => Byte(other.b.buf, p) = Byte(buf, p)

\* C36: a copy of a builder is indistinguishable from the original: the
\* same add and close calls applied to both yield identical bytes and
\* identical errors, the effect of the original's options included.
C36_CopyBehavesLikeOriginal == BehavesAlike("copy")

\* C37: after clear() the builder behaves like a freshly constructed one
\* with the same options, whatever state it was in before: the following
\* add and close calls produce the same bytes, the same size and the same
\* errors as on a new builder.
C37_ClearedBehavesLikeNew == BehavesAlike("new")

\* C37 witness: clear() was called with an object open and its key
\* written, and a key and value were then added to a new open object.
C37_AddedAfterClearWithPendingKey ==
  /\ other.kind = "new"
  /\ other.from.stack # <<>>
  /\ other.from.attrWritten
  /\ last.op = "addKeyValue"
  /\ last.err = NoErr
  /\ stack # <<>>

\* C38: in every reachable builder state there are at least as many
\* per-depth offset lists as open containers, the stack positions are
\* strictly increasing and below the write position, the byte at every
\* stack position is an open-container tag (0x05 or 0x07), and the stack
\* depth is the number of successful opens minus the number of successful
\* closes since construction or the last clear().
C38_StackIsWellFormed ==
  /\ Len(index) >= Len(stack)
  /\ \A i \in 1..Len(stack) :
       /\ stack[i] < pos
       /\ i > 1 => stack[i - 1] < stack[i]
       /\ Byte(buf, stack[i]) \in {5, 7}
  /\ Len(stack) = Len(ents)

====
